---- MODULE Spec2Model ----
(***************************************************************************)
(* Model of the crypto-bot core: TradeManager (position table, open/close  *)
(* flows, SL/TP/TSL evaluation), RiskManager (position-count and daily     *)
(* loss gate, daily PnL) and the BotCore start/stop lifecycle.             *)
(*                                                                         *)
(* Numbers.  Prices are integers counted in price ticks (the exchange's    *)
(* price precision); amounts are integers counted in amount steps.         *)
(* Python None and Decimal zero are both written 0: every place the code   *)
(* reads such a value it tests "x and x > 0" or "x is None or x <= 0".     *)
(* Values that the code computes as exact Decimals before it rounds them   *)
(* to the price precision are carried in hundredths of a tick.             *)
(***************************************************************************)
EXTENDS Integers, Sequences, FiniteSets, TLC

\* Loop threads that can outlive the start() that made them.
MaxStaleThreads == 1

\* Items the external signal queue holds at most in the model.
MaxQueue == 3

\* ----------------------------------------------------------------- bounds
\* Position ids issued in a run (exchange order ids and reconciled ids).
MaxPositionIds == 2
\* Calendar days that pass in a run.
MaxDays == 1
\* Iterations of execute_trade's confirmation poll (30 s at 0.5 s in the code).
MaxPollIterations == 2

\* ------------------------------------------------------- program constants
DECIMAL_ZERO == 0
DECIMAL_HUNDRED == 100
\* Decimal('0.99') of the tracked amount, as a percentage.
HighFillPercent == 99

None == DECIMAL_ZERO

Symbols == {"BTCUSDT", "ETHUSDT"}
Sides == {"buy", "sell"}
Threads == {"loop", "gui"}
PositionIds == 1..MaxPositionIds

\* Balances (quote currency) the exchange can report.
BalanceSet == {0, 1000}

VARIABLES
    open_positions,         \* TradeManager.open_positions: id -> position
    trade_manager,          \* BotCore.trade_manager is not None
    is_running,             \* BotCore._is_running
    settings,               \* the user's trading and risk settings
    env,                    \* what the exchange and the signal source can
                            \* produce in this run
    start_returned,         \* what the last call of BotCore.start gave its caller
    virtual_balances,       \* BotCore.virtual_balances: currency -> balance
    notified_opens,         \* history: position ids passed to
                            \* RiskManager.notify_position_opened
    order_id_counter,       \* position ids issued so far
    pc,                     \* where each thread is
    cl,                     \* frame of the close call a thread is in
    et,                     \* frame of execute_trade (loop thread)
    chk,                    \* frame of check_and_close_positions (loop thread)
    daily_pnl,              \* RiskManager._daily_pnl
    last_reset_date,        \* RiskManager._last_reset_date
    initial_daily_balance,  \* RiskManager._initial_daily_balance
    today,                  \* date.today()
    reduce_orders,          \* history: reduce-only orders placed per position id
    removals,               \* history: times each position id was popped
    closed_pnl_today,       \* history: net PnL of the closes confirmed today
    stale_bot_threads,      \* _run_loop threads of an earlier start() still alive
    positions_lock,         \* TradeManager._positions_lock: its holder
    balance_lock,           \* BotCore._balance_lock: its holder
    external_signal_queue,  \* BotCore.external_signal_queue
    processed_count,        \* processed_count of _process_external_signals
    draining,               \* the loop thread is in _process_external_signals
    taken,                  \* history: items dequeued in this loop iteration
    sentinel_history        \* history: a None was dequeued by this engine run;
                            \* items then behind it that are still queued

vars == <<open_positions, trade_manager, is_running, settings, env, start_returned, virtual_balances, notified_opens, external_signal_queue, processed_count, draining, taken, sentinel_history, positions_lock, balance_lock, stale_bot_threads,
          order_id_counter,
          pc, cl, et, chk, daily_pnl, last_reset_date, initial_daily_balance,
          today, reduce_orders, removals, closed_pnl_today>>

\* --------------------------------------------------------------- helpers
EmptyTable == [i \in {} |-> 0]

RemoveKey(f, k) == [i \in DOMAIN f \ {k} |-> f[i]]

\* A threading.Lock nobody holds.
Unlocked == "free"

\* 'with lock:' can be entered by t: the lock is free, or t has it already
\* from the step in which it entered the block.
CanEnter(lock, t) == lock \in {Unlocked, t}

\* The holder of a lock when t leaves its 'with' block, had t kept the lock
\* over the call that follows the block.
LockKeptAfterBlock(t) == t

\* The holder of a lock when t leaves its 'with' block.
LockAfterBlock(t) == Unlocked

QueueUnchanged ==
    UNCHANGED <<external_signal_queue, processed_count, draining, taken,
                sentinel_history>>

MinOf(S) == CHOOSE x \in S : \A y \in S : x <= y

NoCall == [order_id |-> 0, symbol |-> "", side |-> "", amount |-> 0,
           entry_price |-> 0, ret |-> "", result |-> FALSE,
           closed_trade_pnl |-> 0, daily_pnl_read |-> 0,
           saved |-> TRUE]

NoTrade == [symbol |-> "", side |-> "", waited |-> 0, preclose |-> "none",
            entry_price |-> 0, final_stop_loss_price |-> 0,
            final_take_profit_price |-> 0, current_quote_balance |-> 0,
            calc_size_base_from_risk |-> 0, final_amount_base |-> 0]

NoCheck == [positions_to_close_now |-> {}, close_reason |-> [i \in PositionIds |-> ""],
            unpriced |-> {}]

\* A position record as _track_position and reconciliation build it;
\* reconciled: the id is a synthesized "reconciled_..." id, not an order id.
NewPosition(reconciled, symbol, side, amount, entry_price, sl_price, tp_price, tsl) ==
    [reconciled |-> reconciled, symbol |-> symbol, side |-> side, amount |-> amount,
     entry_price |-> entry_price, sl_price |-> sl_price, tp_price |-> tp_price,
     status |-> "open",
     tsl_enabled |-> tsl.enabled,
     tsl_activation_percentage |-> tsl.activation_percentage,
     tsl_callback_percentage |-> tsl.callback_percentage,
     tsl_activated |-> FALSE, tsl_stop_price |-> None,
     tsl_highest_price |-> None, tsl_lowest_price |-> None]

tsl_settings_from_config ==
    [enabled |-> settings.tsl_enabled,
     activation_percentage |-> settings.tsl_activation_percentage,
     callback_percentage |-> settings.tsl_distance_percent]

\* DemoExchangeAPI._quantize with precision_type 'price': ROUND_DOWN to the tick.
\* TradeManager._adjust_precision(symbol, value, 'price'); 0 stands for None.
adjust_precision(hundredths) ==
    IF hundredths <= DECIMAL_ZERO THEN None ELSE (hundredths \div DECIMAL_HUNDRED)

\* utils.calculate_stop_loss_price, in hundredths of a tick (0: None).
calculate_stop_loss_price(entry_price, percentage, side) ==
    IF percentage <= DECIMAL_ZERO THEN None
    ELSE IF side = "buy" THEN entry_price * (DECIMAL_HUNDRED - percentage)
    ELSE entry_price * (DECIMAL_HUNDRED + percentage)

\* utils.calculate_take_profit_price, in hundredths of a tick (0: None).
calculate_take_profit_price(entry_price, percentage, side) ==
    IF percentage <= DECIMAL_ZERO THEN None
    ELSE IF side = "buy" THEN entry_price * (DECIMAL_HUNDRED + percentage)
    ELSE entry_price * (DECIMAL_HUNDRED - percentage)

\* calculate_pnl with the side ignored: every position treated as long.
calculate_pnl_long_only(entry_price, current_price, filled_amount, side) ==
    IF filled_amount <= DECIMAL_ZERO \/ entry_price <= DECIMAL_ZERO
       \/ current_price <= DECIMAL_ZERO THEN DECIMAL_ZERO
    ELSE (current_price - entry_price) * filled_amount

\* utils.calculate_pnl (0 stands for a zero PnL; inputs are positive here).
calculate_pnl(entry_price, current_price, filled_amount, side) ==
    IF filled_amount <= DECIMAL_ZERO \/ entry_price <= DECIMAL_ZERO
       \/ current_price <= DECIMAL_ZERO THEN DECIMAL_ZERO
    ELSE IF side = "buy" THEN (current_price - entry_price) * filled_amount
    ELSE (entry_price - current_price) * filled_amount

\* Ids of the positions of a symbol with status open, in dict order.
OpenIdsOfSymbol(symbol) ==
    {i \in DOMAIN open_positions :
        open_positions[i].symbol = symbol /\ open_positions[i].status = "open"}

\* TradeManager.get_position_by_symbol_thread_safe: the id found, 0 for None.
get_position_by_symbol_thread_safe(symbol) ==
    IF OpenIdsOfSymbol(symbol) = {} THEN 0 ELSE MinOf(OpenIdsOfSymbol(symbol))

\* The position table of the TradeManager the engine holds (none after _cleanup).
VisibleTable == IF trade_manager THEN open_positions ELSE EmptyTable

\* ------------------------------------------------------------ RiskManager
\* _initial_daily_balance = None
NoBalance == -1

\* RiskManager._reset_daily_pnl_if_needed: the values it leaves.
ResetNeeded == today # last_reset_date

\* The daily PnL carried over the day boundary.
PnlKeptOverReset == daily_pnl

PnlAfterReset == IF ResetNeeded THEN DECIMAL_ZERO ELSE daily_pnl

BalanceAfterReset == IF ResetNeeded THEN NoBalance ELSE initial_daily_balance

\* RiskManager._get_current_daily_pnl_percent, step 1: the reference balance
\* after a query whose get_balance call answers balance (negative: it raised).
ReferenceBalanceAfterQuery(balance) ==
    IF BalanceAfterReset # NoBalance THEN BalanceAfterReset
    ELSE IF balance < DECIMAL_ZERO THEN NoBalance
    ELSE IF balance - PnlAfterReset <= DECIMAL_ZERO THEN balance
    ELSE balance - PnlAfterReset

\* The comparison made strict: a loss of exactly the limit passes.
DailyLossExceeded(balance) ==
    LET ref == IF BalanceAfterReset # NoBalance THEN BalanceAfterReset
               ELSE IF balance < DECIMAL_ZERO THEN NoBalance
               ELSE IF balance - PnlAfterReset <= DECIMAL_ZERO THEN balance
               ELSE balance - PnlAfterReset IN
    /\ ref > DECIMAL_ZERO
    /\ PnlAfterReset * DECIMAL_HUNDRED < -(settings.max_daily_loss_percent * ref)

\* current_pnl_ratio <= self.max_daily_loss_limit, cross-multiplied.
DailyLossReached(balance) ==
    LET ref == ReferenceBalanceAfterQuery(balance) IN
    /\ ref > DECIMAL_ZERO
    /\ PnlAfterReset * DECIMAL_HUNDRED <= -(settings.max_daily_loss_percent * ref)

\* TradeManager.get_open_positions_thread_safe: status open or closing.
MaxPositionsReached ==
    /\ settings.max_open_positions > 0
    /\ Cardinality(({i \in DOMAIN open_positions : open_positions[i].status \in {"open", "closing"}})) >= settings.max_open_positions

DailyCheckEnabled == settings.max_daily_loss_percent > DECIMAL_ZERO

\* Step 2: whether a ratio comes back (not None).
\* RiskManager.can_open_new_position: the verdict.
can_open_new_position(balance) ==
    /\ ~MaxPositionsReached
    /\ DailyCheckEnabled => ((LET ref == ReferenceBalanceAfterQuery(balance) IN
                              IF BalanceAfterReset = NoBalance /\ balance < DECIMAL_ZERO THEN FALSE
                              ELSE ref > DECIMAL_ZERO \/ (ref = DECIMAL_ZERO /\ PnlAfterReset = DECIMAL_ZERO)) /\ ~DailyLossReached(balance))

RiskUnchanged == UNCHANGED <<daily_pnl, last_reset_date, initial_daily_balance>>

\* ------------------------------------------- TradeManager: closing a position
\* What the caller finds in its frame when a close call has returned.
CloseReturns(t, result) ==
    /\ pc' = [pc EXCEPT ![t] = cl[t].ret]
    /\ cl' = [cl EXCEPT ![t] = (IF cl[t].ret = "et_poll" THEN [NoCall EXCEPT !.result = result] ELSE NoCall)]

\* close_position_by_symbol: the locked search for the first open position.
close_position_by_symbol(t) ==
    /\ pc[t] = "close_by_symbol"
    /\ CanEnter(positions_lock, t)
    /\ positions_lock' = LockAfterBlock(t)
    /\ LET found == get_position_by_symbol_thread_safe(cl[t].symbol) IN
       IF found # 0
       THEN /\ pc' = [pc EXCEPT ![t] = "close_by_id"]
            /\ cl' = [cl EXCEPT ![t].order_id = found]
       ELSE CloseReturns(t, FALSE)
    /\ UNCHANGED <<open_positions, trade_manager, is_running, settings, env, start_returned, virtual_balances, notified_opens, external_signal_queue, processed_count, draining, taken, sentinel_history, balance_lock, stale_bot_threads,
                   order_id_counter, et, chk, today, reduce_orders, removals,
                   closed_pnl_today>>
    /\ RiskUnchanged

MayCloseAnyStatus(order_id) == order_id \in DOMAIN open_positions

\* Whether close_position_by_id may take the position (first locked section).
MayClose(order_id) ==
    /\ order_id \in DOMAIN open_positions
    /\ open_positions[order_id].status = "open"

\* close_position_by_id, first locked section: copy and mark 'closing'.
close_position_by_id(t) ==
    /\ pc[t] = "close_by_id"
    /\ CanEnter(positions_lock, t)
    /\ positions_lock' = LockAfterBlock(t)
    /\ LET id == cl[t].order_id IN
       IF MayClose(id)
       THEN /\ open_positions' = [open_positions EXCEPT ![id].status = "closing"]
            /\ cl' = [cl EXCEPT ![t].symbol = open_positions[id].symbol,
                                ![t].side = open_positions[id].side,
                                ![t].amount = open_positions[id].amount,
                                ![t].entry_price = open_positions[id].entry_price]
            /\ pc' = [pc EXCEPT ![t] = "close_order"]
       ELSE /\ CloseReturns(t, FALSE)
            /\ UNCHANGED open_positions
    /\ UNCHANGED <<trade_manager, is_running, settings, env, start_returned, virtual_balances, notified_opens, external_signal_queue, processed_count, draining, taken, sentinel_history, balance_lock, stale_bot_threads, order_id_counter, et,
                   chk, today, reduce_orders, removals, closed_pnl_today>>
    /\ RiskUnchanged

\* close_position_by_id: the reduce-only market order goes to the exchange.
PlaceCloseOrder(t) ==
    /\ pc[t] = "close_order"
    /\ CanEnter(balance_lock, t)
    /\ balance_lock' = LockAfterBlock(t)
    /\ reduce_orders' = [reduce_orders EXCEPT ![cl[t].order_id] = @ + 1]
    /\ pc' = [pc EXCEPT ![t] = "close_finish"]
    /\ UNCHANGED <<open_positions, trade_manager, is_running, settings, env, start_returned, virtual_balances, notified_opens, external_signal_queue, processed_count, draining, taken, sentinel_history, positions_lock, stale_bot_threads,
                   order_id_counter, cl, et, chk, today, removals,
                   closed_pnl_today>>
    /\ RiskUnchanged

\* Answers of exchange_api.create_order to a closing order.  kind "none": no
\* usable response (None, or no id); "raised": the call raised.
CloseResponses ==
    [kind : {"none", "raised"}, status : {"closed"}, percent : {0},
     average : {0}, market : {0}, fee : {0}]
    \cup
    {r \in [kind : {"order"}, status : {"closed", "open"},
             percent : env.close_percents, average : env.fills,
             market : env.quotes \cup {0}, fee : env.fees] :
        /\ r.average > 0 => r.market = 0
        /\ r.status = "open" => r.percent = 0 /\ r.average = 0 /\ r.market = 0}

FilledOnClose(amount, resp) == (amount * resp.percent) \div DECIMAL_HUNDRED

\* exit_price: the order's average, else the current market price (0: None).
ExitPrice(resp) == IF resp.average > DECIMAL_ZERO THEN resp.average ELSE resp.market

\* closing_status == 'closed' and filled_on_close >= amount * Decimal('0.99')
CloseConfirmed(amount, resp) ==
    /\ resp.kind = "order"
    /\ resp.status = "closed"
    /\ FilledOnClose(amount, resp) * DECIMAL_HUNDRED >= amount * HighFillPercent

\* if order_id_str in self.open_positions and status == 'closing'
StillClosing(order_id) ==
    /\ order_id \in DOMAIN open_positions
    /\ open_positions[order_id].status = "closing"

NetPnl(frame, resp) ==
    calculate_pnl(frame.entry_price, ExitPrice(resp),
                  FilledOnClose(frame.amount, resp), frame.side) - resp.fee

\* if self.database_manager and removed_pos_data and entry_price and exit_price
PnlIsRecorded(frame, resp) ==
    /\ settings.database_manager
    /\ StillClosing(frame.order_id)
    /\ frame.entry_price > DECIMAL_ZERO
    /\ ExitPrice(resp) > DECIMAL_ZERO

TableLeftClosing(order_id) == open_positions

TableDroppingFailedClose(order_id) == RemoveKey(open_positions, order_id)

\* The table after the locked section that ends a close whose order failed.
TableAfterFailedClose(order_id) ==
    IF StillClosing(order_id)
    THEN [open_positions EXCEPT ![order_id].status = "close_failed"]
    ELSE open_positions

\* The table after the locked section that ends a confirmed close.
\* close_position_by_id from the exchange's answer to its return, or, when
\* the PnL is recorded, to the read in RiskManager.update_daily_pnl's
\* self._daily_pnl += pnl_dec: the save of the closed trade, the day test
\* with its reset, then the load of self._daily_pnl. No lock is held, so
\* another thread can run between this load and the store.
FinishClose(t, resp) ==
    /\ pc[t] = "close_finish"
    /\ CanEnter(positions_lock, t)
    /\ positions_lock' = LockAfterBlock(t)
    /\ LET f == cl[t]
           id == cl[t].order_id IN
       IF CloseConfirmed(f.amount, resp)
       THEN /\ open_positions' = (IF StillClosing(id) THEN RemoveKey(open_positions, id)
                                  ELSE open_positions)
            /\ removals' = [removals EXCEPT ![id] =
                              IF StillClosing(id) THEN @ + 1 ELSE @]
            /\ IF PnlIsRecorded(f, resp)
               THEN /\ (/\ last_reset_date' = today
                        /\ daily_pnl' = PnlAfterReset
                        /\ initial_daily_balance' = BalanceAfterReset)
                    /\ pc' = [pc EXCEPT ![t] = "pnl_store"]
                    /\ \E saved \in env.save_results :
                          cl' = [cl EXCEPT ![t] =
                                   [NoCall EXCEPT !.ret = f.ret,
                                                  !.closed_trade_pnl = NetPnl(f, resp),
                                                  !.daily_pnl_read = PnlAfterReset,
                                                  !.saved = saved]]
                    /\ UNCHANGED closed_pnl_today
               ELSE /\ RiskUnchanged
                    /\ closed_pnl_today' =
                          IF StillClosing(id) /\ ExitPrice(resp) > DECIMAL_ZERO
                          THEN closed_pnl_today + NetPnl(f, resp)
                          ELSE closed_pnl_today
                    /\ CloseReturns(t, TRUE)
       ELSE /\ open_positions' = TableAfterFailedClose(id)
            /\ CloseReturns(t, FALSE)
            /\ UNCHANGED <<removals, closed_pnl_today>>
            /\ RiskUnchanged
    /\ UNCHANGED <<trade_manager, is_running, settings, env, start_returned, notified_opens, external_signal_queue, processed_count, draining, taken, sentinel_history, balance_lock, stale_bot_threads, order_id_counter, et,
                   chk, today, reduce_orders>>

FinishCloseStep(t) ==
    \E resp \in CloseResponses : FinishClose(t, resp) /\ UNCHANGED virtual_balances

\* The close reported as the save reported.
CloseResultFollowsSave(saved) == saved

\* What close_position_by_id returns after database_manager.save_closed_trade
\* answered saved: a False from the save is logged and nothing else.
CloseResultAfterSave(saved) == TRUE

\* RiskManager.update_daily_pnl, the store of self._daily_pnl += pnl_dec, and
\* the return of close_position_by_id with True.
update_daily_pnl(t) ==
    /\ pc[t] = "pnl_store"
    /\ daily_pnl' = cl[t].daily_pnl_read + cl[t].closed_trade_pnl
    /\ closed_pnl_today' =
          IF last_reset_date = today
          THEN closed_pnl_today + cl[t].closed_trade_pnl ELSE closed_pnl_today
    /\ CloseReturns(t, CloseResultAfterSave(cl[t].saved))
    /\ UNCHANGED <<open_positions, trade_manager, is_running, settings, env, start_returned, virtual_balances, notified_opens, external_signal_queue, processed_count, draining, taken, sentinel_history, positions_lock, balance_lock,
                   stale_bot_threads, order_id_counter, et, chk, today,
                   reduce_orders, removals, last_reset_date,
                   initial_daily_balance>>

\* BotCore.handle_manual_close_position (GUI thread)
handle_manual_close_position(order_id) ==
    /\ pc["gui"] = "idle"
    /\ is_running
    /\ trade_manager
    /\ pc' = [pc EXCEPT !["gui"] = "close_by_id"]
    /\ cl' = [cl EXCEPT !["gui"] = [NoCall EXCEPT !.order_id = order_id,
                                                  !.ret = "idle"]]
    /\ UNCHANGED <<open_positions, trade_manager, is_running, settings, env, start_returned, virtual_balances, notified_opens, external_signal_queue, processed_count, draining, taken, sentinel_history, positions_lock, balance_lock, stale_bot_threads,
                   order_id_counter, et, chk, today, reduce_orders, removals,
                   closed_pnl_today>>
    /\ RiskUnchanged

\* --------------------------------------------- TradeManager: execute_trade
\* Answers of exchange_api.create_order to an opening order.
OpenResponses ==
    [kind : {"none", "raised"}, status : {"closed"}, percent : {0}, average : {0}]
    \cup
    [kind : {"order"}, status : {"closed", "rejected"}, percent : {0, 100},
     average : env.fills]

UnchangedByTrade ==
    UNCHANGED <<trade_manager, is_running, settings, env, start_returned, positions_lock, stale_bot_threads, chk, today, reduce_orders,
                removals, closed_pnl_today>>

\* execute_trade, action 'open': the search for a position of the symbol.
OpenSignal(symbol, side) ==
    /\ pc["loop"] = "idle"
    /\ is_running
    /\ CanEnter(positions_lock, "loop")
    /\ IF get_position_by_symbol_thread_safe(symbol) # 0
       THEN /\ pc' = [pc EXCEPT !["loop"] = "close_by_symbol"]
            /\ cl' = [cl EXCEPT !["loop"] = [NoCall EXCEPT !.symbol = symbol,
                                                           !.ret = "et_poll"]]
       ELSE /\ pc' = [pc EXCEPT !["loop"] = "et_gate"]
            /\ UNCHANGED cl
    /\ et' = [NoTrade EXCEPT !.symbol = symbol, !.side = side]
    /\ UNCHANGED <<open_positions, order_id_counter>>
    /\ UnchangedByTrade
    /\ UNCHANGED notified_opens
    /\ UNCHANGED <<balance_lock, virtual_balances>>
    /\ RiskUnchanged

\* execute_trade, action 'close'.
CloseSignal(symbol) ==
    /\ pc["loop"] = "idle"
    /\ is_running
    /\ pc' = [pc EXCEPT !["loop"] = "close_by_symbol"]
    /\ cl' = [cl EXCEPT !["loop"] = [NoCall EXCEPT !.symbol = symbol,
                                                   !.ret = "idle"]]
    /\ UNCHANGED <<open_positions, order_id_counter, et>>
    /\ UnchangedByTrade
    /\ UNCHANGED notified_opens
    /\ UNCHANGED <<balance_lock, virtual_balances>>
    /\ RiskUnchanged

OpensRegardless(closed_successfully) == FALSE

\* if closed_successfully: ... else: return
AbortsOpen(closed_successfully) == ~closed_successfully

\* execute_trade after close_position_by_symbol returned: abort on False,
\* else the confirmation poll (one iteration per step).
PollClosed ==
    /\ pc["loop"] = "et_poll"
    /\ CanEnter(positions_lock, "loop")
    /\ IF AbortsOpen(cl["loop"].result)
       THEN /\ pc' = [pc EXCEPT !["loop"] = "idle"]
            /\ et' = NoTrade
       ELSE IF get_position_by_symbol_thread_safe(et.symbol) # 0
               /\ et.waited < MaxPollIterations
       THEN /\ et' = [et EXCEPT !.waited = @ + 1]
            /\ UNCHANGED pc
       ELSE /\ pc' = [pc EXCEPT !["loop"] = "et_confirm"]
            /\ UNCHANGED et
    /\ cl' = [cl EXCEPT !["loop"] = IF AbortsOpen(cl["loop"].result) THEN NoCall ELSE @]
    /\ UNCHANGED <<open_positions, order_id_counter>>
    /\ UnchangedByTrade
    /\ UNCHANGED notified_opens
    /\ QueueUnchanged
    /\ UNCHANGED <<balance_lock, virtual_balances>>
    /\ RiskUnchanged

\* execute_trade after the poll: confirmed closed, or timed out; both go on.
ConfirmClosed ==
    /\ pc["loop"] = "et_confirm"
    /\ CanEnter(positions_lock, "loop")
    /\ et' = [et EXCEPT !.preclose =
                 IF get_position_by_symbol_thread_safe(et.symbol) = 0
                 THEN "confirmed" ELSE "timeout"]
    /\ pc' = [pc EXCEPT !["loop"] = "et_gate"]
    /\ cl' = [cl EXCEPT !["loop"] = NoCall]
    /\ UNCHANGED <<open_positions, order_id_counter>>
    /\ UnchangedByTrade
    /\ UNCHANGED notified_opens
    /\ QueueUnchanged
    /\ UNCHANGED <<balance_lock, virtual_balances>>
    /\ RiskUnchanged

\* The exchange call behind get_balance fails.
QueryFailed == -1

\* ExchangeAPI.get_balance: the free balance, 0.0 when the exchange call fails.
get_balance(answer) == IF answer = QueryFailed THEN DECIMAL_ZERO ELSE answer

\* RiskManager.can_open_new_position: what it does to the risk state.
\* execute_trade: risk_manager.can_open_new_position(), the exchange
\* answering the balance query, if one is made, with answer.
RiskGate(answer) ==
    /\ pc["loop"] = "et_gate"
    /\ CanEnter(balance_lock, "loop")
    /\ balance_lock' = LockAfterBlock("loop")
    /\ (/\ last_reset_date' = today
        /\ daily_pnl' = PnlAfterReset
        /\ initial_daily_balance' =
              IF MaxPositionsReached \/ ~DailyCheckEnabled THEN BalanceAfterReset
              ELSE ReferenceBalanceAfterQuery((get_balance(answer))))
    /\ IF can_open_new_position(get_balance(answer))
       THEN /\ pc' = [pc EXCEPT !["loop"] = "et_order"]
            /\ UNCHANGED et
       ELSE /\ pc' = [pc EXCEPT !["loop"] = "idle"]
            /\ et' = NoTrade
    /\ UNCHANGED <<open_positions, order_id_counter, cl>>
    /\ UnchangedByTrade
    /\ UNCHANGED <<notified_opens, virtual_balances>>
    /\ QueueUnchanged

RiskGateStep == \E answer \in env.balances : RiskGate(answer)

\* stop_loss_price_dec of execute_trade, in hundredths of a tick (0: None).
StopLossFor(entry_price, side, signal_sl) ==
    IF signal_sl > DECIMAL_ZERO THEN signal_sl * DECIMAL_HUNDRED
    ELSE calculate_stop_loss_price(entry_price, settings.stop_loss_percentage, side)

\* final_stop_loss_price is None or on the wrong side of the entry estimate
StopLossRejected(final_sl, entry_price, side) ==
    \/ final_sl = None
    \/ side = "buy" /\ final_sl >= entry_price
    \/ side = "sell" /\ final_sl <= entry_price

\* final_take_profit_price of execute_trade, in ticks (0: None).
TakeProfitFor(entry_price, side, signal_tp) ==
    LET raw == IF signal_tp > DECIMAL_ZERO THEN signal_tp * DECIMAL_HUNDRED
               ELSE calculate_take_profit_price(entry_price,
                        settings.take_profit_percentage, side)
        adjusted_tp == adjust_precision(raw)
    IN IF adjusted_tp > DECIMAL_ZERO
          /\ (\/ side = "buy" /\ adjusted_tp > entry_price
              \/ side = "sell" /\ adjusted_tp < entry_price)
       THEN adjusted_tp ELSE None

\* An order counted as answered with a usable status, filled or not.
OrderIsAnswered(resp, amount) ==
    /\ resp.kind = "order"
    /\ resp.status \in {"closed", "open", "partially_filled"}

\* order_status in ['closed','open','partially_filled'] and filled > 0
OrderIsTracked(resp, amount) ==
    /\ resp.kind = "order"
    /\ resp.status \in {"closed", "open", "partially_filled"}
    /\ (amount * resp.percent) \div DECIMAL_HUNDRED > DECIMAL_ZERO

\* TradeManager._track_position
track_position(order_id, position) == ([i \in DOMAIN open_positions \cup {order_id} |-> IF i = order_id THEN position ELSE open_positions[i]])

\* risk_manager.notify_position_opened(order_id_str)
notify_position_opened(order_id) == notified_opens \cup {order_id}

\* execute_trade from the price estimate to its return: SL, TP, size, the
\* order and _track_position.
PlaceOpenOrder(entry_price, signal_sl, signal_tp, final_amount, resp) ==
    /\ pc["loop"] = "et_order"
    /\ CanEnter(balance_lock, "loop")
    /\ CanEnter(positions_lock, "loop")
    /\ OrderIsTracked(resp, final_amount) => order_id_counter < MaxPositionIds
    /\ LET final_sl == adjust_precision(StopLossFor(entry_price, et.side, signal_sl))
           final_tp == TakeProfitFor(entry_price, et.side, signal_tp)
           avg == IF resp.average > DECIMAL_ZERO THEN resp.average ELSE entry_price
           filled == (final_amount * resp.percent) \div DECIMAL_HUNDRED
           id == order_id_counter + 1
       IN IF /\ entry_price > DECIMAL_ZERO
             /\ ~StopLossRejected(final_sl, entry_price, et.side)
             /\ final_amount > DECIMAL_ZERO
             /\ OrderIsTracked(resp, final_amount)
          THEN /\ open_positions' = track_position(id,
                     NewPosition(FALSE, et.symbol, et.side, filled, avg, final_sl,
                                 final_tp, tsl_settings_from_config))
               /\ order_id_counter' = id
               /\ notified_opens' = notify_position_opened(id)
          ELSE /\ UNCHANGED <<open_positions, order_id_counter, notified_opens>>
    /\ pc' = [pc EXCEPT !["loop"] = "idle"]
    /\ et' = NoTrade
    /\ UNCHANGED cl
    /\ UnchangedByTrade
    /\ QueueUnchanged
    /\ UNCHANGED balance_lock
    /\ RiskUnchanged

\* Amounts the sizing chain can produce and the exchange can fill, in steps.
PlaceOpenOrderStep ==
    \E entry_price \in env.quotes \cup {0}, signal_sl \in env.signal_prices,
       signal_tp \in env.signal_prices, final_amount \in ({100}) \cup {0},
       resp \in OpenResponses :
        /\ PlaceOpenOrder(entry_price, signal_sl, signal_tp, final_amount, resp)
        /\ UNCHANGED virtual_balances

\* ------------------------------------------------------- position sizing
\* Amounts: a position's amount is in steps of the symbol's amount precision;
\* sizes before _adjust_precision are in raw units, AmountSubunits to the step.
AmountSubunits == 10
\* Steps of the amount precision in one unit of the base currency.
StepsPerBase == 1000
RawPerBase == StepsPerBase * AmountSubunits
\* Raw units in a hundredth of a base unit: x/100 of a base unit is
\* x * RawPerHundredth raw units.
RawPerHundredth == RawPerBase \div DECIMAL_HUNDRED

\* The raw size taken for a number of steps.
AmountNotQuantized(raw) == raw

\* DemoExchangeAPI._quantize with precision_type 'amount': ROUND_DOWN to the step.
\* TradeManager._adjust_precision(symbol, value, 'amount'), raw units to steps;
\* 0 stands for None.
adjust_precision_amount(raw) ==
    IF raw <= DECIMAL_ZERO THEN None ELSE (raw \div AmountSubunits)

\* risk_per_unit_base of calculate_position_size
risk_per_unit_base(entry_price, stop_loss_price) ==
    IF entry_price >= stop_loss_price THEN entry_price - stop_loss_price
    ELSE stop_loss_price - entry_price

\* The risk size with the whole distance of the entry from zero as the risk.
SizeFromEntryAlone(entry_price, stop_loss_price, quote_currency_balance) ==
    IF settings.max_risk_per_trade_percent > DECIMAL_ZERO
    THEN (settings.max_risk_per_trade_percent * quote_currency_balance
            * RawPerHundredth) \div entry_price
    ELSE None

\* calculated_size_from_risk_percent of calculate_position_size, raw units
\* (0: None); called with risk_per_unit_base > 0.
calculated_size_from_risk_percent(entry_price, stop_loss_price, quote_currency_balance) ==
    IF settings.max_risk_per_trade_percent > DECIMAL_ZERO
    THEN (settings.max_risk_per_trade_percent * quote_currency_balance
            * RawPerHundredth)
         \div risk_per_unit_base(entry_price, stop_loss_price)
    ELSE None

\* size_limit_from_user_settings_base of calculate_position_size, raw units
\* (0: None).
size_limit_from_user_settings_base(entry_price, quote_currency_balance) ==
    IF settings.default_amount_value <= DECIMAL_ZERO THEN None
    ELSE IF settings.default_amount_type = "percentage"
    THEN (settings.default_amount_value * quote_currency_balance * RawPerHundredth)
         \div entry_price
    ELSE IF settings.default_amount_type = "quote_fixed"
    THEN (settings.default_amount_value * RawPerBase) \div entry_price
    ELSE IF settings.default_amount_type = "fixed"
    THEN settings.default_amount_value * RawPerBase
    ELSE None

\* final_calculated_size_base of calculate_position_size before the demo check
SizeAfterUserSettings(from_risk, limit) ==
    IF from_risk > DECIMAL_ZERO
    THEN IF limit > DECIMAL_ZERO
         THEN IF settings.default_amount_type \in {"percentage", "quote_fixed"}
              THEN IF from_risk > limit THEN limit ELSE from_risk
              ELSE IF settings.default_amount_type = "fixed" THEN limit
              ELSE from_risk
         ELSE from_risk
    ELSE IF limit > DECIMAL_ZERO THEN limit
    ELSE DECIMAL_ZERO

\* calculate_position_size: the demo check on the unleveraged position value
SizeAfterDemoCheck(size, entry_price, quote_currency_balance, is_demo_mode) ==
    IF is_demo_mode /\ size > DECIMAL_ZERO
       /\ size * entry_price > quote_currency_balance * RawPerBase
    THEN (quote_currency_balance * RawPerBase) \div entry_price
    ELSE size

\* RiskManager.calculate_position_size, raw units; entry_price > 0,
\* stop_loss_price > 0 and quote_currency_balance >= 0 as execute_trade
\* passes them.
calculate_position_size(entry_price, stop_loss_price, quote_currency_balance, is_demo_mode) ==
    IF risk_per_unit_base(entry_price, stop_loss_price) <= DECIMAL_ZERO
    THEN DECIMAL_ZERO
    ELSE SizeAfterDemoCheck(
             SizeAfterUserSettings(
                 calculated_size_from_risk_percent(entry_price, stop_loss_price,
                                                   quote_currency_balance),
                 size_limit_from_user_settings_base(entry_price,
                                                    quote_currency_balance)),
             entry_price, quote_currency_balance, is_demo_mode)

\* exchange_api.is_demo_mode(): the DemoExchangeAPI stands in for the exchange
is_demo_mode == settings.current_mode = "demo"

\* leverage of execute_trade
leverage == IF settings.default_leverage > 1 THEN settings.default_leverage ELSE 1

\* calc_size_base_from_risk of execute_trade, raw units (0: None): the
\* RiskManager is asked only when its risk percentage is positive.
SizeFromRiskManager(entry_price, stop_loss_price, current_quote_balance) ==
    IF settings.max_risk_per_trade_percent > DECIMAL_ZERO
    THEN calculate_position_size(entry_price, stop_loss_price,
                                 current_quote_balance, is_demo_mode)
    ELSE None

\* execute_trade: the amount from the RiskManager, in steps (0: none).
AmountFromRisk(entry_price, stop_loss_price, current_quote_balance) ==
    adjust_precision_amount(
        SizeFromRiskManager(entry_price, stop_loss_price, current_quote_balance))

\* temp_amount_calc of execute_trade, raw units (0: None)
\* execute_trade: the amount from the user's settings, in steps (0: none).
\* execute_trade: final_amount_base before the demo check.
AmountBeforeDemoCheck(entry_price, stop_loss_price, current_quote_balance) ==
    IF AmountFromRisk(entry_price, stop_loss_price, current_quote_balance)
           > DECIMAL_ZERO
    THEN AmountFromRisk(entry_price, stop_loss_price, current_quote_balance)
    ELSE (adjust_precision_amount((IF settings.default_amount_type = "fixed"
                                   THEN settings.default_amount_value * RawPerBase
                                   ELSE IF settings.default_amount_type = "quote_fixed"
                                   THEN (settings.default_amount_value * RawPerBase) \div entry_price
                                   ELSE IF settings.default_amount_type = "percentage"
                                           /\ current_quote_balance > DECIMAL_ZERO
                                   THEN (settings.default_amount_value * current_quote_balance * leverage
                                           * RawPerHundredth) \div entry_price
                                   ELSE None)))

\* The demo check left out.
AmountUnchecked(amount, entry_price, current_quote_balance) == amount

\* execute_trade: the demo check of the position value against the
\* leveraged balance, in steps.
AmountAfterDemoCheck(amount, entry_price, current_quote_balance) ==
    IF is_demo_mode /\ amount > DECIMAL_ZERO
       /\ amount * entry_price > current_quote_balance * leverage * StepsPerBase
    THEN adjust_precision_amount(
             (current_quote_balance * leverage * RawPerBase) \div entry_price)
    ELSE amount

\* final_amount_base of execute_trade, in steps (0: no trade).
final_amount_base(entry_price, stop_loss_price, current_quote_balance) ==
    AmountAfterDemoCheck(
        AmountBeforeDemoCheck(entry_price, stop_loss_price, current_quote_balance),
        entry_price, current_quote_balance)

\* execute_trade from the price estimate to the amount of the order: SL, TP,
\* the balance query and the size.
SizeOrder(entry_price, signal_sl, signal_tp, answer) ==
    /\ pc["loop"] = "et_order"
    /\ CanEnter(balance_lock, "loop")
    /\ LET final_sl == adjust_precision(StopLossFor(entry_price, et.side, signal_sl))
           final_tp == TakeProfitFor(entry_price, et.side, signal_tp)
           balance == get_balance(answer)
       IN IF /\ entry_price > DECIMAL_ZERO
             /\ ~StopLossRejected(final_sl, entry_price, et.side)
             /\ final_amount_base(entry_price, final_sl, balance) > DECIMAL_ZERO
          THEN /\ pc' = [pc EXCEPT !["loop"] = "et_create"]
               /\ et' = [et EXCEPT !.entry_price = entry_price,
                                   !.final_stop_loss_price = final_sl,
                                   !.final_take_profit_price = final_tp,
                                   !.current_quote_balance = balance,
                                   !.calc_size_base_from_risk =
                                       SizeFromRiskManager(entry_price, final_sl, balance),
                                   !.final_amount_base =
                                       final_amount_base(entry_price, final_sl, balance)]
          ELSE /\ pc' = [pc EXCEPT !["loop"] = "idle"]
               /\ et' = NoTrade
    /\ UNCHANGED <<open_positions, order_id_counter, cl>>
    /\ UnchangedByTrade
    /\ UNCHANGED notified_opens
    /\ QueueUnchanged
    /\ UNCHANGED <<balance_lock, virtual_balances>>
    /\ RiskUnchanged

SizeOrderStep ==
    \E entry_price \in env.quotes \cup {0}, signal_sl \in env.signal_prices,
       signal_tp \in env.signal_prices, answer \in env.balances :
        SizeOrder(entry_price, signal_sl, signal_tp, answer)

\* The bot stopped by an order that raises.
StopsWhenOrderRaises(resp) == is_running /\ resp.kind # "raised"

\* _is_running after create_order: what the call raises is caught by the
\* except clauses of execute_trade and does not reach _run_loop, whose own
\* except clause would stop the bot.
RunningAfterOrder(resp) == is_running

\* execute_trade from create_order to its return: the order and
\* _track_position.
CreateOrder(resp) ==
    /\ pc["loop"] = "et_create"
    /\ CanEnter(balance_lock, "loop")
    /\ CanEnter(positions_lock, "loop")
    /\ OrderIsTracked(resp, et.final_amount_base) => order_id_counter < MaxPositionIds
    /\ LET avg == IF resp.average > DECIMAL_ZERO THEN resp.average ELSE et.entry_price
           filled == (et.final_amount_base * resp.percent) \div DECIMAL_HUNDRED
           id == order_id_counter + 1
       IN IF OrderIsTracked(resp, et.final_amount_base)
          THEN /\ open_positions' = track_position(id,
                     NewPosition(FALSE, et.symbol, et.side, filled, avg,
                                 et.final_stop_loss_price,
                                 et.final_take_profit_price,
                                 tsl_settings_from_config))
               /\ order_id_counter' = id
               /\ notified_opens' = notify_position_opened(id)
          ELSE /\ UNCHANGED <<open_positions, order_id_counter, notified_opens>>
    /\ pc' = [pc EXCEPT !["loop"] = "idle"]
    /\ et' = NoTrade
    /\ UNCHANGED cl
    /\ is_running' = RunningAfterOrder(resp)
    /\ UNCHANGED <<trade_manager, settings, env, start_returned, positions_lock, stale_bot_threads,
                   chk, today, reduce_orders, removals, closed_pnl_today>>
    /\ QueueUnchanged
    /\ UNCHANGED balance_lock
    /\ RiskUnchanged

CreateOrderStep ==
    \E resp \in OpenResponses : CreateOrder(resp) /\ UNCHANGED virtual_balances


\* ------------------------------------------- TradeManager: trailing stop
IsBuy(position) == position.side = "buy"

\* current_price against activation_price = entry * (1 +/- activation / 100)
ActivationReached(position, current_price) ==
    IF IsBuy(position)
    THEN current_price * DECIMAL_HUNDRED >=
            position.entry_price * (DECIMAL_HUNDRED + position.tsl_activation_percentage)
    ELSE current_price * DECIMAL_HUNDRED <=
            position.entry_price * (DECIMAL_HUNDRED - position.tsl_activation_percentage)

\* _adjust_precision(price * (1 -/+ callback / 100)), in ticks (0: None)
TrailFrom(position, price) ==
    adjust_precision(IF IsBuy(position)
                     THEN price * (DECIMAL_HUNDRED - position.tsl_callback_percentage)
                     ELSE price * (DECIMAL_HUNDRED + position.tsl_callback_percentage))

\* new_peak: the current price when it passes the recorded peak, else None.
NewPeak(position, current_price) ==
    IF IsBuy(position)
    THEN IF position.tsl_highest_price = None
            \/ current_price > position.tsl_highest_price
         THEN current_price ELSE None
    ELSE IF position.tsl_lowest_price = None
            \/ current_price < position.tsl_lowest_price
         THEN current_price ELSE None

tsl_stop_follows_price(position, current_price) == TrailFrom(position, current_price)

\* needs_update
\* peak_for_calc = new_peak or (highest_price_copy / lowest_price_copy)
\* current_tsl_stop_price_copy at the end of _check_trailing_stop, for a
\* position whose trailing stop is active or activates at this price.
tsl_stop_price_after(position, current_price) ==
    LET seeded == IF (~position.tsl_activated /\ ActivationReached(position, current_price))
                  THEN TrailFrom(position, current_price)
                  ELSE position.tsl_stop_price
        peak == (IF NewPeak(position, current_price) # None THEN NewPeak(position, current_price)
                 ELSE IF IsBuy(position) THEN position.tsl_highest_price
                 ELSE position.tsl_lowest_price)
        candidate == IF peak # None THEN TrailFrom(position, peak) ELSE None
    IN IF candidate > DECIMAL_ZERO /\ (\/ seeded = None
                                       \/ IsBuy(position) /\ candidate > seeded
                                       \/ ~IsBuy(position) /\ candidate < seeded)
       THEN candidate ELSE seeded

\* not all([...]) or activation_perc <= 0 or callback_perc <= 0: return None
\* Whether _check_trailing_stop touches the position at all.
TslRuns(position, current_price) ==
    /\ (/\ position.entry_price > DECIMAL_ZERO
        /\ position.tsl_activation_percentage > DECIMAL_ZERO
        /\ position.tsl_callback_percentage > DECIMAL_ZERO)
    /\ position.tsl_activated \/ ActivationReached(position, current_price)

\* The position after updated_state_for_main_pos is applied to it.
check_trailing_stop(position, current_price) ==
    IF ~TslRuns(position, current_price) THEN position
    ELSE [position EXCEPT
            !.tsl_activated = TRUE,
            !.tsl_stop_price = tsl_stop_price_after(position, current_price),
            !.tsl_highest_price =
                IF IsBuy(position) /\ NewPeak(position, current_price) # None
                THEN NewPeak(position, current_price) ELSE @,
            !.tsl_lowest_price =
                IF ~IsBuy(position) /\ NewPeak(position, current_price) # None
                THEN NewPeak(position, current_price) ELSE @]

\* reason_to_close of _check_trailing_stop is not None
TslTriggered(position, current_price) ==
    /\ TslRuns(position, current_price)
    /\ LET stop == tsl_stop_price_after(position, current_price) IN
       /\ stop > DECIMAL_ZERO
       /\ \/ IsBuy(position) /\ current_price <= stop
          \/ ~IsBuy(position) /\ current_price >= stop

\* ------------------------------ TradeManager: check_and_close_positions
SlTriggered(position, current_price) ==
    /\ position.sl_price > DECIMAL_ZERO
    /\ \/ IsBuy(position) /\ current_price <= position.sl_price
       \/ ~IsBuy(position) /\ current_price >= position.sl_price

TpTriggered(position, current_price) ==
    /\ position.tp_price > DECIMAL_ZERO
    /\ \/ IsBuy(position) /\ current_price >= position.tp_price
       \/ ~IsBuy(position) /\ current_price <= position.tp_price

\* The chain with the trailing stop consulted first.
CloseReasonTrailFirst(position, current_price) ==
    IF position.tsl_enabled /\ TslTriggered(position, current_price) THEN "TSL"
    ELSE IF SlTriggered(position, current_price) THEN "SL"
    ELSE IF TpTriggered(position, current_price) THEN "TP"
    ELSE IF position.tsl_enabled THEN "TSL_CHECKED"
    ELSE "NONE"

\* The branch of the if / elif / elif chain a position takes.
CloseReason(position, current_price) ==
    IF SlTriggered(position, current_price) THEN "SL"
    ELSE IF TpTriggered(position, current_price) THEN "TP"
    ELSE IF position.tsl_enabled
    THEN IF TslTriggered(position, current_price) THEN "TSL" ELSE "TSL_CHECKED"
    ELSE "NONE"

OpenIds == {i \in DOMAIN open_positions : open_positions[i].status = "open"}

SymbolsOf(ids) == {open_positions[i].symbol : i \in ids}

\* Current prices by symbol (0: none obtained), for the symbols asked only.
PriceMaps(symbols) ==
    {m \in [Symbols -> env.quotes \cup {0}] : \A s \in Symbols \ symbols : m[s] = 0}

UnchangedByCheck ==
    UNCHANGED <<trade_manager, is_running, settings, env, start_returned, virtual_balances, notified_opens, external_signal_queue, processed_count, draining, taken, sentinel_history, positions_lock, balance_lock, stale_bot_threads, order_id_counter, et,
                today, reduce_orders, removals, closed_pnl_today>>

\* Positions are judged on whatever the price map holds for their symbol.
PositionsToCloseUnpriced(prices) ==
    {i \in OpenIds :
        /\ open_positions[i].entry_price > DECIMAL_ZERO
        /\ CloseReason(open_positions[i], prices[open_positions[i].symbol])
              \in {"SL", "TP", "TSL"}}

\* positions_to_close_now, as ids.
PositionsToClose(prices) ==
    {i \in OpenIds :
        /\ prices[open_positions[i].symbol] > DECIMAL_ZERO
        /\ open_positions[i].entry_price > DECIMAL_ZERO
        /\ CloseReason(open_positions[i], prices[open_positions[i].symbol])
              \in {"SL", "TP", "TSL"}}

\* The table after the evaluation loop has applied the trailing-stop updates.
\* check_and_close_positions up to its closing loop: the locked snapshot of
\* the open positions, the price fetch and the evaluation loop.  Every
\* position is evaluated on its snapshot copy, and the only writes are the
\* trailing-stop updates, each guarded by "still in the table with status
\* open"; no other code writes the fields they touch.
CheckPositions(prices) ==
    /\ pc["loop"] = "idle"
    /\ ~draining
    /\ is_running
    /\ trade_manager
    /\ CanEnter(positions_lock, "loop")
    /\ OpenIds # {}
    /\ prices # ([s \in Symbols |-> 0])
    /\ open_positions' = ([i \in DOMAIN open_positions |->
                              LET position == open_positions[i]
                                  price == prices[position.symbol]
                              IN IF position.status = "open" /\ price > DECIMAL_ZERO
                                    /\ position.entry_price > DECIMAL_ZERO
                                    /\ CloseReason(position, price) \in {"TSL", "TSL_CHECKED"}
                                 THEN check_trailing_stop(position, price) ELSE position])
    /\ chk' = [positions_to_close_now |-> PositionsToClose(prices),
               close_reason |->
                   [i \in PositionIds |->
                       IF i \in PositionsToClose(prices)
                       THEN CloseReason(open_positions[i],
                                        prices[open_positions[i].symbol])
                       ELSE ""],
               unpriced |-> {i \in OpenIds : prices[open_positions[i].symbol] = DECIMAL_ZERO}]
    /\ pc' = [pc EXCEPT !["loop"] = "chk_close"]
    /\ UNCHANGED cl
    /\ UnchangedByCheck
    /\ RiskUnchanged

CheckPositionsStep ==
    \E prices \in PriceMaps(SymbolsOf(OpenIds)) : CheckPositions(prices)

\* check_and_close_positions: one iteration of the closing loop, up to the
\* call of close_position_by_id.
CheckClose ==
    /\ pc["loop"] = "chk_close"
    /\ IF chk.positions_to_close_now = {}
       THEN /\ pc' = [pc EXCEPT !["loop"] = "idle"]
            /\ chk' = NoCheck
            /\ UNCHANGED cl
       ELSE LET id == MinOf(chk.positions_to_close_now) IN
            /\ chk' = [chk EXCEPT !.positions_to_close_now = @ \ {id},
                                  !.close_reason[id] = ""]
            /\ IF MayClose(id)
               THEN /\ pc' = [pc EXCEPT !["loop"] = "close_by_id"]
                    /\ cl' = [cl EXCEPT !["loop"] =
                                [NoCall EXCEPT !.order_id = id, !.ret = "chk_close"]]
               ELSE UNCHANGED <<pc, cl>>
    /\ UNCHANGED open_positions
    /\ UnchangedByCheck
    /\ RiskUnchanged

\* ------------------------------------------------ BotCore: start and stop
\* The loop thread of the last start() has not ended.
LoopThreadAlive == pc["loop"] \notin {"none", "exited"}

\* TP of a reconciled position, in ticks: None when on the wrong side.
\* SL of a reconciled position, in ticks: None when on the wrong side.
\* TradeManager.load_and_track_reconciled_positions on a new TradeManager;
\* the k-th reported position gets the id first_id + k - 1.
\* BotCore.start: new TradeManager and RiskManager, reconciliation, loop thread.
\* start() tests only _is_running: when stop() gave up its join, the thread
\* of the earlier start() is still alive. What that thread still does inside
\* the discarded TradeManager is not followed; it is counted as alive.
Start(positions_from_api) ==
    /\ ~is_running
    /\ pc["gui"] = "idle"
    /\ CanEnter(balance_lock, "gui")
    /\ CanEnter(positions_lock, "gui")
    /\ LoopThreadAlive => (env.restart_early /\ stale_bot_threads < MaxStaleThreads)
    /\ order_id_counter + Len(positions_from_api) <= MaxPositionIds
    /\ open_positions' =
          ([i \in (order_id_counter + 1) .. ((order_id_counter + 1) + Len(positions_from_api) - 1) |->
               LET api_pos_data == positions_from_api[i - (order_id_counter + 1) + 1] IN
               NewPosition(TRUE, api_pos_data.symbol, api_pos_data.side, api_pos_data.amount,
                           api_pos_data.entry_price,
                           (LET sl == adjust_precision(
                                         calculate_stop_loss_price(api_pos_data.entry_price, settings.stop_loss_percentage, api_pos_data.side))
                            IN IF settings.stop_loss_percentage > DECIMAL_ZERO
                                  /\ ~StopLossRejected(sl, api_pos_data.entry_price, api_pos_data.side)
                               THEN sl ELSE None),
                           (IF settings.take_profit_percentage > DECIMAL_ZERO
                            THEN TakeProfitFor(api_pos_data.entry_price, api_pos_data.side, None) ELSE None),
                           tsl_settings_from_config)])
    /\ order_id_counter' = order_id_counter + Len(positions_from_api)
    /\ trade_manager' = TRUE
    /\ is_running' = TRUE
    /\ daily_pnl' = DECIMAL_ZERO
    /\ last_reset_date' = today
    /\ initial_daily_balance' = NoBalance
    /\ closed_pnl_today' = DECIMAL_ZERO
    /\ stale_bot_threads' =
          IF LoopThreadAlive THEN stale_bot_threads + 1 ELSE stale_bot_threads
    /\ pc' = [pc EXCEPT !["loop"] = "idle"]
    /\ cl' = [cl EXCEPT !["loop"] = NoCall]
    /\ et' = NoTrade
    /\ chk' = NoCheck
    /\ draining' = FALSE
    /\ processed_count' = 0
    /\ taken' = 0
    /\ sentinel_history' = [sentinel_history EXCEPT !.dequeued = FALSE]
    /\ UNCHANGED <<settings, env, notified_opens, external_signal_queue, positions_lock, balance_lock, today, reduce_orders, removals>>

\* Only the trading section is asked for.
OnlyTradingRequired == {"trading"}

\* if ... 'risk' not in user_settings or 'trading' not in user_settings
RequiredSections == {"risk", "trading"}

\* The demo ledger start() sets up from demo_settings.start_balances: an
\* invalid or negative entry becomes 0.
\* BotCore.start for a user whose settings hold the sections user_settings.
\* Without a required section: _cleanup() and return False, before any
\* thread is created. Otherwise the components and the loop thread are
\* started; in demo mode the ledger has been filled, and the
\* _send_position_update() that ends start() reads exchange_api.exchange,
\* which DemoExchangeAPI does not have: the AttributeError leaves start().
start(user_settings, positions_from_api) ==
    IF RequiredSections \subseteq user_settings
    THEN /\ Start(positions_from_api)
         /\ virtual_balances' = (IF is_demo_mode THEN ([c \in DOMAIN env.start_balances |->
                                                           IF env.start_balances[c] < DECIMAL_ZERO THEN DECIMAL_ZERO ELSE env.start_balances[c]]) ELSE virtual_balances)
         /\ start_returned' = (IF is_demo_mode THEN "raised" ELSE "True")
    ELSE /\ ~is_running
         /\ pc["gui"] = "idle"
         /\ CanEnter(balance_lock, "gui")
         /\ trade_manager' = FALSE
         /\ virtual_balances' = EmptyTable
         /\ external_signal_queue' = <<>>
         /\ sentinel_history' = [sentinel_history EXCEPT !.behind = 0]
         /\ start_returned' = "False"
         /\ UNCHANGED <<open_positions, is_running, settings, env, notified_opens, processed_count, draining, taken, positions_lock, balance_lock, stale_bot_threads, order_id_counter,
                        pc, cl, et, chk, today, reduce_orders, removals, closed_pnl_today>>
         /\ RiskUnchanged

StartStep == \E positions_from_api \in env.reconciled : start(RequiredSections, positions_from_api)

\* BotCore.stop up to the join. The flag goes down first; with
\* close_positions_decision, handle_manual_close_position is then called for
\* every position of get_open_positions_thread_safe, and each call goes on
\* to its close only if it reads the flag as up.
stop(close_positions_decision) ==
    /\ is_running
    /\ pc["gui"] = "idle"
    /\ is_running' = FALSE
    /\ reduce_orders' =
          [i \in PositionIds |->
              IF close_positions_decision /\ trade_manager /\ i \in OpenIds /\ is_running'
              THEN reduce_orders[i] + 1 ELSE reduce_orders[i]]
    /\ pc' = [pc EXCEPT !["gui"] = "stop_join"]
    /\ UNCHANGED <<open_positions, trade_manager, settings, env, start_returned, virtual_balances, notified_opens, external_signal_queue, processed_count, draining, taken, sentinel_history, positions_lock, balance_lock, stale_bot_threads, order_id_counter,
                   cl, et, chk, today, removals, closed_pnl_today>>
    /\ RiskUnchanged

Stop == \E close_positions_decision \in BOOLEAN : stop(close_positions_decision)

\* BotCore.stop after join(timeout=5): _cleanup. A loop thread that is
\* between operations wakes on _stop_event and ends within the join; one
\* inside an operation may outlast the five seconds, and the TradeManager
\* object lives on for it.
cleanup ==
    /\ pc["gui"] = "stop_join"
    /\ pc["loop"] # "idle"
    /\ CanEnter(balance_lock, "gui")
    /\ trade_manager' = FALSE
    /\ virtual_balances' = EmptyTable
    /\ external_signal_queue' = <<>>
    /\ sentinel_history' = [sentinel_history EXCEPT !.behind = 0]
    /\ pc' = [pc EXCEPT !["gui"] = "idle"]
    /\ UNCHANGED <<open_positions, is_running, settings, env, start_returned, notified_opens, processed_count, draining, taken, positions_lock, balance_lock, stale_bot_threads, order_id_counter,
                   cl, et, chk, today, reduce_orders, removals, closed_pnl_today>>
    /\ RiskUnchanged

\* _run_loop: while self._is_running
LoopExit ==
    /\ pc["loop"] = "idle"
    /\ ~is_running
    /\ ~draining
    /\ pc' = [pc EXCEPT !["loop"] = "exited"]
    /\ UNCHANGED <<open_positions, trade_manager, is_running, settings, env, start_returned, virtual_balances, notified_opens, external_signal_queue, processed_count, draining, taken, sentinel_history, positions_lock, balance_lock, stale_bot_threads,
                   order_id_counter, cl, et, chk, today, reduce_orders,
                   removals, closed_pnl_today>>
    /\ RiskUnchanged

\* _run_loop in a thread of an earlier start(): it ends only when it finds
\* _is_running False; a later start() has set the flag again for it too.
StaleLoopExit ==
    /\ stale_bot_threads > 0
    /\ ~is_running
    /\ stale_bot_threads' = stale_bot_threads - 1
    /\ UNCHANGED <<open_positions, trade_manager, is_running, settings, env, start_returned, virtual_balances, notified_opens, external_signal_queue, processed_count, draining, taken, sentinel_history, positions_lock, balance_lock,
                   order_id_counter, pc, cl, et, chk, today, reduce_orders,
                   removals, closed_pnl_today>>
    /\ RiskUnchanged

\* date.today() moves to the next day.
DayPasses ==
    /\ today < MaxDays
    /\ today' = today + 1
    /\ closed_pnl_today' = DECIMAL_ZERO
    /\ UNCHANGED <<open_positions, trade_manager, is_running, settings, env, start_returned, virtual_balances, notified_opens, external_signal_queue, processed_count, draining, taken, sentinel_history, positions_lock, balance_lock, stale_bot_threads,
                   order_id_counter, pc, cl, et, chk, reduce_orders, removals>>
    /\ RiskUnchanged

\* ------------------------------------------------------- the specification
\* A position the exchange reports at start-up.
Reported(symbol, side, entry_price) ==
    [symbol |-> symbol, side |-> side, entry_price |-> entry_price, amount |-> 100]

SettingsChoices ==
    [max_open_positions : {1, 2},
     stop_loss_percentage : {10},
     take_profit_percentage : {10},
     tsl_enabled : {FALSE},
     tsl_activation_percentage : {10},
     tsl_distance_percent : {10},
     max_daily_loss_percent : {0},
     max_signals_per_cycle : {10},
     database_manager : {TRUE}, current_mode : {"real"}]

\* No None has been dequeued.
\* BotCore constructed, not started.
InitWith(choices, envs) ==
    /\ settings \in choices
    /\ env \in envs
    /\ notified_opens = {}
    /\ start_returned = "none"
    /\ virtual_balances = EmptyTable
    /\ open_positions = EmptyTable
    /\ trade_manager = FALSE
    /\ is_running = FALSE
    /\ order_id_counter = 0
    /\ pc = [t \in Threads |-> IF t = "loop" THEN "none" ELSE "idle"]
    /\ cl = [t \in Threads |-> NoCall]
    /\ et = NoTrade
    /\ chk = NoCheck
    /\ daily_pnl = DECIMAL_ZERO
    /\ last_reset_date = 0
    /\ initial_daily_balance = NoBalance
    /\ today = 0
    /\ reduce_orders = [i \in PositionIds |-> 0]
    /\ removals = [i \in PositionIds |-> 0]
    /\ closed_pnl_today = DECIMAL_ZERO
    /\ stale_bot_threads = 0
    /\ positions_lock = Unlocked
    /\ balance_lock = Unlocked
    /\ external_signal_queue = <<>>
    /\ processed_count = 0
    /\ draining = FALSE
    /\ taken = 0
    /\ sentinel_history = ([dequeued |-> FALSE, behind |-> 0])

\* Percentages of the requested amount an order response can report filled.
\* What fetch_all_open_positions_from_exchange can return: nothing, one
\* position, or both sides of one symbol (hedge mode).
\* Orders fill at the quoted price; closes can fall short of the threshold.
Init == InitWith(SettingsChoices, ([quotes : {{9, 10}}, fills : {{0, 10}}, signal_prices : {{0}},
                                    fees : {{0}}, symbols : {Symbols}, sides : {{"buy"}},
                                    close_percents : {({0, 98, 99, 100})},
                                    reconciled : {({<<>>}
                                                   \cup {<<Reported(s, d, 10)>> : s \in Symbols, d \in Sides}
                                                   \cup {<<Reported(s, "buy", 10), Reported(s, "sell", 10)>> :
                                                            s \in Symbols})},
                                    balances : {BalanceSet \cup {QueryFailed}},
                                    restart_early : {FALSE}, save_results : {{TRUE}}, start_balances : {[USDT |-> 10000]}]))

ManualCloseStep == \E order_id \in PositionIds : handle_manual_close_position(order_id)

OpenSignalStep ==
    /\ ~draining
    /\ QueueUnchanged
    /\ \E symbol \in env.symbols, side \in env.sides : OpenSignal(symbol, side)

CloseSignalStep ==
    /\ ~draining
    /\ QueueUnchanged
    /\ \E symbol \in env.symbols : CloseSignal(symbol)

CloseBySymbolStep == \E t \in Threads : close_position_by_symbol(t)

CloseByIdStep == \E t \in Threads : close_position_by_id(t)

PlaceCloseOrderStep == \E t \in Threads : PlaceCloseOrder(t)

FinishCloseSteps == \E t \in Threads : FinishCloseStep(t)

UpdateDailyPnlStep == \E t \in Threads : update_daily_pnl(t)

Next ==
    \/ StartStep
    \/ Stop
    \/ cleanup
    \/ LoopExit
    \/ ManualCloseStep
    \/ OpenSignalStep
    \/ CloseSignalStep
    \/ PollClosed
    \/ ConfirmClosed
    \/ RiskGateStep
    \/ PlaceOpenOrderStep
    \/ CloseBySymbolStep
    \/ CloseByIdStep
    \/ PlaceCloseOrderStep
    \/ FinishCloseSteps
    \/ UpdateDailyPnlStep
    \/ CheckPositionsStep
    \/ CheckClose

Spec == Init /\ [][Next]_vars

\* ------------------------------------ BotCore: the external signal queue
\* What the webhook listener and other producers put on the queue: a wrapper
\* that yields a valid signal, one that is skipped (not a dict, data not a
\* dict, source not enabled, unparsable or invalid signal), or None.
SentinelItem == "None"

\* max_process_per_cycle as _process_external_signals derives it from the
\* configured max_signals_per_cycle.
max_process_per_cycle ==
    IF settings.max_signals_per_cycle <= 0 THEN 1
    ELSE settings.max_signals_per_cycle

\* queue.Queue(): the queue is made without a maxsize.
maxsize == 0

\* Queue.put waits while the queue is full, which it can only be with a
\* positive maxsize.
\* external_signal_queue.put(item), on the producer's thread.
put(item) ==
    /\ ~(maxsize > 0 /\ Len(external_signal_queue) >= maxsize)
    /\ Len(external_signal_queue) < MaxQueue
    /\ external_signal_queue' = Append(external_signal_queue, item)
    /\ UNCHANGED <<open_positions, trade_manager, is_running, settings, env, start_returned, virtual_balances, notified_opens,
                   processed_count, draining, taken, sentinel_history,
                   positions_lock, balance_lock, stale_bot_threads,
                   order_id_counter, pc, cl, et, chk, today, reduce_orders,
                   removals, closed_pnl_today>>
    /\ RiskUnchanged

PutStep == \E item \in ({"signal", "skipped", SentinelItem}) : put(item)

\* What stays the same when the loop thread handles the queue and calls
\* nothing else.
UnchangedByQueue ==
    /\ UNCHANGED <<open_positions, trade_manager, settings, env, start_returned, virtual_balances, notified_opens, positions_lock,
                   balance_lock, stale_bot_threads, order_id_counter, today,
                   reduce_orders, removals, closed_pnl_today>>
    /\ RiskUnchanged

\* _run_loop calls _process_external_signals: processed_count = 0.
process_external_signals ==
    /\ pc["loop"] = "idle"
    /\ is_running
    /\ ~draining
    /\ draining' = TRUE
    /\ processed_count' = 0
    /\ taken' = 0
    /\ UNCHANGED <<external_signal_queue, sentinel_history, is_running, pc, cl,
                   et, chk>>
    /\ UnchangedByQueue

\* processed_count counting the signals handed to execute_trade only.
CountsOnlyExecuted(item) == item = "signal"

\* processed_count += 1 comes before every check of the item.
CountsAsProcessed(item) == item # SentinelItem

\* while processed_count < max_process_per_cycle, bot running, get() returns
DrainGoesOn ==
    /\ pc["loop"] = "idle"
    /\ draining
    /\ is_running
    /\ processed_count < max_process_per_cycle
    /\ external_signal_queue # <<>>

\* The queue and the counters after one get().
Dequeued ==
    /\ external_signal_queue' = Tail(external_signal_queue)
    /\ taken' = taken + 1
    /\ processed_count' =
          IF CountsAsProcessed(Head(external_signal_queue))
          THEN processed_count + 1 ELSE processed_count

BehindAfterGet ==
    IF sentinel_history.behind > 0 THEN sentinel_history.behind - 1 ELSE 0

\* get() returns None: the stop command.
TakeSentinel ==
    /\ DrainGoesOn
    /\ Head(external_signal_queue) = SentinelItem
    /\ Dequeued
    /\ is_running' = FALSE
    /\ draining' = FALSE
    /\ sentinel_history' =
          [dequeued |-> TRUE, behind |-> Len(Tail(external_signal_queue))]
    /\ UNCHANGED <<pc, cl, et, chk>>
    /\ UnchangedByQueue

\* get() returns an item that is skipped.
TakeSkipped ==
    /\ DrainGoesOn
    /\ Head(external_signal_queue) = "skipped"
    /\ Dequeued
    /\ sentinel_history' = [sentinel_history EXCEPT !.behind = BehindAfterGet]
    /\ UNCHANGED <<is_running, draining, pc, cl, et, chk>>
    /\ UnchangedByQueue

\* get() returns a valid signal: trade_manager.execute_trade(parsed_signal).
TakeSignal ==
    /\ DrainGoesOn
    /\ Head(external_signal_queue) = "signal"
    /\ Dequeued
    /\ sentinel_history' = [sentinel_history EXCEPT !.behind = BehindAfterGet]
    /\ UNCHANGED draining
    /\ IF trade_manager
       THEN \/ \E symbol \in env.symbols, side \in env.sides :
                  OpenSignal(symbol, side)
            \/ \E symbol \in env.symbols : CloseSignal(symbol)
       ELSE /\ UNCHANGED <<is_running, pc, cl, et, chk>>
            /\ UnchangedByQueue

\* _process_external_signals returns: the count is reached, the queue stayed
\* empty for the timeout, or the bot was stopped.
ProcessExternalSignalsReturns ==
    /\ pc["loop"] = "idle"
    /\ draining
    /\ ~DrainGoesOn
    /\ draining' = FALSE
    /\ UNCHANGED <<external_signal_queue, processed_count, taken,
                   sentinel_history, is_running, pc, cl, et, chk>>
    /\ UnchangedByQueue

\* The engine fed through the queue only.
NextQueue ==
    \/ StartStep
    \/ Stop
    \/ cleanup
    \/ LoopExit
    \/ PutStep
    \/ process_external_signals
    \/ TakeSentinel
    \/ TakeSkipped
    \/ TakeSignal
    \/ ProcessExternalSignalsReturns
    \/ PollClosed
    \/ ConfirmClosed
    \/ RiskGateStep
    \/ PlaceOpenOrderStep
    \/ CloseBySymbolStep
    \/ CloseByIdStep
    \/ PlaceCloseOrderStep
    \/ FinishCloseSteps
    \/ UpdateDailyPnlStep
    \/ CheckPositionsStep
    \/ CheckClose

InitQueue == InitWith(([max_open_positions : {1},
                        stop_loss_percentage : {10},
                        take_profit_percentage : {10},
                        tsl_enabled : {FALSE},
                        tsl_activation_percentage : {10},
                        tsl_distance_percent : {10},
                        max_daily_loss_percent : {0},
                        max_signals_per_cycle : {0, 1, 2},
                        database_manager : {TRUE}, current_mode : {"real"}]),
    ([quotes : {{10}}, fills : {{10}}, signal_prices : {{0}}, fees : {{0}},
                                                       symbols : {{"BTCUSDT"}}, sides : {{"buy"}}, close_percents : {{100}},
                                                       reconciled : {{<<>>}}, balances : {{1000}}, restart_early : {FALSE}, save_results : {{TRUE}}, start_balances : {[USDT |-> 10000]}]))

SpecQueue == InitQueue /\ [][NextQueue]_vars

\* ------------------------------------------------- ill-typed queue items
\* A wrapper that is a dict whose 'source' is not a string (a number, None).
IllTypedItem == "ill_typed_source"

\* The queue is a public attribute of BotCore: any holder of the BotCore can
\* put a wrapper of its own making.
PutIllTypedStep == put(IllTypedItem)

\* get() returns a wrapper whose 'source' has no lower(): the AttributeError
\* reaches the except clause of the while loop, which stops the bot
\* (_stop_event only ends the wait between two cycles of _run_loop).
TakeIllTyped ==
    /\ DrainGoesOn
    /\ Head(external_signal_queue) = IllTypedItem
    /\ Dequeued
    /\ sentinel_history' = [sentinel_history EXCEPT !.behind = BehindAfterGet]
    /\ is_running' = FALSE
    /\ draining' = FALSE
    /\ UNCHANGED <<pc, cl, et, chk>>
    /\ UnchangedByQueue

\* The engine fed through the queue by the webhook and by other producers.
SpecSignals == InitQueue /\ [][(\/ NextQueue
                                \/ PutIllTypedStep
                                \/ TakeIllTyped)]_vars

\* --------------------------------------------------- the sized open order
\* execute_trade with the size computed from the settings and the balance,
\* and create_order as a step of its own.
NextSize ==
    \/ StartStep
    \/ Stop
    \/ cleanup
    \/ LoopExit
    \/ ManualCloseStep
    \/ OpenSignalStep
    \/ CloseSignalStep
    \/ PollClosed
    \/ ConfirmClosed
    \/ RiskGateStep
    \/ SizeOrderStep
    \/ CreateOrderStep
    \/ CloseBySymbolStep
    \/ CloseByIdStep
    \/ PlaceCloseOrderStep
    \/ FinishCloseSteps
    \/ UpdateDailyPnlStep
    \/ CheckPositionsStep
    \/ CheckClose

\* BTCUSDT quoted at 50000; the account holds nothing, 10 or 10000 of the
\* quote currency, or the balance query fails.
\* default_amount_type and default_amount_value: no amount, a fixed base
\* amount, a percentage of the balance, a fixed quote value.
SpecSize == (InitWith(({[max_open_positions |-> 1,
                         stop_loss_percentage |-> sl_perc,
                         take_profit_percentage |-> 0,
                         tsl_enabled |-> FALSE,
                         tsl_activation_percentage |-> 0,
                         tsl_distance_percent |-> 0,
                         max_daily_loss_percent |-> 0,
                         max_signals_per_cycle |-> 10,
                         database_manager |-> TRUE,
                         max_risk_per_trade_percent |-> risk,
                         default_amount_type |-> policy.type,
                         default_amount_value |-> policy.value,
                         default_leverage |-> lev,
                         current_mode |-> mode] :
                           sl_perc \in {1, 2}, risk \in {0, 1}, policy \in ({[type |-> "fixed", value |-> 0], [type |-> "fixed", value |-> 1],
                                                                             [type |-> "percentage", value |-> 20],
                                                                             [type |-> "quote_fixed", value |-> 2000]}),
                           lev \in {1, 5}, mode \in {"demo", "real"}}),
             ([quotes : {{50000}}, fills : {{0, 50100}}, signal_prices : {{0}}, fees : {{0}},
                                                                          symbols : {{"BTCUSDT"}}, sides : {{"buy"}}, close_percents : {{100}},
                                                                          reconciled : {{<<>>}}, balances : {{0, 10, 10000, QueryFailed}},
                                                                          restart_early : {FALSE}, save_results : {{TRUE}}, start_balances : {[USDT |-> 10000]}]))) /\ [][NextSize]_vars

\* A thread enters a 'with self._positions_lock:' block of the close path
\* (the search of close_position_by_symbol, the two locked sections of
\* close_position_by_id) and is inside it.
acquire_positions_lock(t) ==
    /\ pc[t] \in {"close_by_symbol", "close_by_id", "close_finish"}
    /\ positions_lock = Unlocked
    /\ positions_lock' = t
    /\ UNCHANGED <<open_positions, trade_manager, is_running, settings, env, start_returned, virtual_balances, notified_opens, external_signal_queue, processed_count, draining, taken, sentinel_history,
                   balance_lock, stale_bot_threads, order_id_counter, pc, cl,
                   et, chk, today, reduce_orders, removals, closed_pnl_today>>
    /\ RiskUnchanged

\* A thread enters 'with self._balance_lock:': get_virtual_balance behind the
\* balance query of the risk gate, update_virtual_balance behind the closing
\* order of the demo exchange.
acquire_balance_lock(t) ==
    /\ \/ pc[t] = "close_order"
       \/ t = "loop" /\ pc[t] = "et_gate"
    /\ balance_lock = Unlocked
    /\ balance_lock' = t
    /\ UNCHANGED <<open_positions, trade_manager, is_running, settings, env, start_returned, virtual_balances, notified_opens, external_signal_queue, processed_count, draining, taken, sentinel_history,
                   positions_lock, stale_bot_threads, order_id_counter, pc, cl,
                   et, chk, today, reduce_orders, removals, closed_pnl_today>>
    /\ RiskUnchanged

AcquirePositionsLockStep == \E t \in Threads : acquire_positions_lock(t)

AcquireBalanceLockStep == \E t \in Threads : acquire_balance_lock(t)

\* The same program on the demo exchange, a step being the entry into or the
\* rest of a locked block rather than the whole block.
SpecLocks == Init /\ [][(Next \/ AcquirePositionsLockStep \/ AcquireBalanceLockStep)]_vars

\* The same program with the day changing under it.
NextDaily == Next \/ DayPasses

\* Orders fill away from the quoted price, closes are charged a fee, signals
\* carry their own stop-loss / take-profit prices, persistence may be absent.
SpecFills == (InitWith(([max_open_positions : {1},
                         stop_loss_percentage : {10},
                         take_profit_percentage : {10},
                         tsl_enabled : {FALSE},
                         tsl_activation_percentage : {10},
                         tsl_distance_percent : {10},
                         max_daily_loss_percent : {0},
                         max_signals_per_cycle : {10},
                         database_manager : BOOLEAN, current_mode : {"real"}]),
              ([quotes : {{10}}, fills : {{0, 9, 11}}, signal_prices : {{0, 11}},
                                                         fees : {{1}}, symbols : {{"BTCUSDT"}}, sides : {Sides},
                                                         close_percents : {{98, 99, 100}},
                                                         reconciled : {{<<>>, <<Reported("BTCUSDT", "sell", 10)>>}},
                                                         balances : {BalanceSet \cup {QueryFailed}},
                                                         restart_early : {FALSE}, save_results : {{TRUE}}, start_balances : {[USDT |-> 10000]}]))) /\ [][NextDaily]_vars

\* Trailing stops enabled, no take-profit, prices moving over a wide range.
SpecTsl == (InitWith(([max_open_positions : {1},
                       stop_loss_percentage : {10},
                       take_profit_percentage : {0},
                       tsl_enabled : {TRUE},
                       tsl_activation_percentage : {10},
                       tsl_distance_percent : {10},
                       max_daily_loss_percent : {0},
                       max_signals_per_cycle : {10},
                       database_manager : BOOLEAN, current_mode : {"real"}]),
            ([quotes : {{80, 90, 100, 110, 120}}, fills : {{100}}, signal_prices : {{0}},
                                                      fees : {{0}}, symbols : {{"BTCUSDT"}}, sides : {Sides},
                                                      close_percents : {{100}},
                                                      reconciled : {{<<>>, <<Reported("BTCUSDT", "sell", 100)>>}},
                                                      balances : {BalanceSet \cup {QueryFailed}},
                                                      restart_early : {FALSE}, save_results : {BOOLEAN}, start_balances : {[USDT |-> 10000]}]))) /\ [][Next]_vars

\* The daily-loss gate at work: a limit of 5% against a balance of 10000, one
\* long position at a time, prices that lose or win 200, 300 or 500 on a
\* position of 100 units, a fee of 0 or 50, and a balance query that can fail.
SpecRisk == (InitWith(([max_open_positions : {1},
                        stop_loss_percentage : {10},
                        take_profit_percentage : {10},
                        tsl_enabled : {FALSE},
                        tsl_activation_percentage : {10},
                        tsl_distance_percent : {10},
                        max_daily_loss_percent : {5},
                        max_signals_per_cycle : {10},
                        database_manager : {TRUE}, current_mode : {"real"}]),
             ([quotes : {{5, 7, 10}}, fills : {{0}}, signal_prices : {{0}},
                                                       fees : {{0, 50}}, symbols : {{"BTCUSDT"}}, sides : {{"buy"}},
                                                       close_percents : {{100}},
                                                       reconciled : {{<<>>, <<Reported("BTCUSDT", "buy", 10),
                                                                               Reported("BTCUSDT", "sell", 10)>>}},
                                                       balances : {{QueryFailed, 10000}},
                                                       restart_early : {FALSE}, save_results : {{TRUE}}, start_balances : {[USDT |-> 10000]}]))) /\ [][NextDaily]_vars

\* start() for users whose settings lack a section.
StartAnySettingsStep ==
    \E user_settings \in SUBSET RequiredSections, positions_from_api \in env.reconciled :
        start(user_settings, positions_from_api)

\* Starts and stops, the user free to start again while the loop thread of
\* the earlier start is still at work.
SpecLoops == (InitWith(SettingsChoices, ([quotes : {{10}}, fills : {{10}}, signal_prices : {{0}},
                                          fees : {{0}}, symbols : {{"BTCUSDT"}}, sides : {{"buy"}},
                                          close_percents : {{0, 100}},
                                          reconciled : {{<<>>, <<Reported("BTCUSDT", "buy", 10)>>}},
                                          balances : {{1000}},
                                          restart_early : {TRUE}, save_results : {{TRUE}}, start_balances : {[USDT |-> 10000]}]))) /\ [][(Next \/ StaleLoopExit \/ StartAnySettingsStep)]_vars

\* ------------------------------------------------- paper trading (demo)
\* The ledger holds whole quanta (1e-8 of a currency); changes are given in
\* thousandths of a quantum, so that a commission of one per mille of a
\* whole cost is exact.
QuantumParts == 1000

\* DEFAULT_COMMISSION_RATE = Decimal('0.001'), in thousandths.
CommissionPerMille == 1

\* Credits are followed up to this balance, in quanta.
MaxVirtualBalance == 2

\* BotCore.get_virtual_balance: self.virtual_balances.get(curr_upper, 0.0)
get_virtual_balance(currency) ==
    IF currency \in DOMAIN virtual_balances THEN virtual_balances[currency] ELSE DECIMAL_ZERO

\* Every change is taken.
UpdateAlwaysAccepted(currency, change) == TRUE

\* update_virtual_balance: not (decimal_change < 0 and new_balance_dec < 0)
UpdateAccepted(currency, change) ==
    ~(change < 0 /\ get_virtual_balance(currency) * QuantumParts + change < 0)

\* BotCore.update_virtual_balance, the ledger it leaves: refused changes
\* leave it as it is, accepted ones store the new balance quantized to the
\* quantum with ROUND_DOWN (towards zero).
update_virtual_balance(currency, change) ==
    LET new_balance_dec == get_virtual_balance(currency) * QuantumParts + change
        quantized_new_balance == IF new_balance_dec >= 0 THEN new_balance_dec \div QuantumParts
                                 ELSE -((-new_balance_dec) \div QuantumParts)
    IN IF UpdateAccepted(currency, change)
       THEN [c \in DOMAIN virtual_balances \cup {currency} |->
                IF c = currency THEN quantized_new_balance ELSE virtual_balances[c]]
       ELSE virtual_balances

\* update_virtual_balance called by a thread: the whole body runs under
\* _balance_lock.
UpdateVirtualBalance(t, currency, change) ==
    /\ pc[t] = "idle"
    /\ CanEnter(balance_lock, t)
    /\ balance_lock' = LockAfterBlock(t)
    /\ get_virtual_balance(currency) * QuantumParts + change <= MaxVirtualBalance * QuantumParts
    /\ virtual_balances' = update_virtual_balance(currency, change)
    /\ UNCHANGED <<open_positions, trade_manager, is_running, settings, env, start_returned, notified_opens, external_signal_queue, processed_count, draining, taken, sentinel_history, positions_lock, stale_bot_threads,
                   order_id_counter, pc, cl, et, chk, today, reduce_orders, removals, closed_pnl_today>>
    /\ RiskUnchanged

\* Credits and debits in thousandths of a quantum, for the quote currency
\* and for a currency the ledger may not hold yet.
UpdateVirtualBalanceStep ==
    \E t \in Threads, currency \in {"USDT", "BTC"}, change \in {-1500, 500, 1500} :
        UpdateVirtualBalance(t, currency, change)

\* commission_dec = quantized_amount * quantized_fill_price * commission_rate,
\* in thousandths of a quantum.
commission_dec(amount, fill_price) == amount * fill_price * CommissionPerMille

\* The simulator fills whatever the ledger says.
create_order_unchecked(amount, market_price, fill_price) ==
    [kind |-> "order", status |-> "closed", percent |-> DECIMAL_HUNDRED,
     average |-> fill_price, market |-> 0,
     fee |-> commission_dec(amount, fill_price) \div QuantumParts]

\* DemoExchangeAPI.create_order for a market order, the order it answers
\* with: rejected without a usable amount or price, and rejected when the
\* commission is not taken from the quote balance; otherwise filled in full
\* at the slipped price, the commission as its fee.
create_order(amount, market_price, fill_price) ==
    IF /\ amount > DECIMAL_ZERO
       /\ market_price > DECIMAL_ZERO
       /\ fill_price > DECIMAL_ZERO
       /\ (commission_dec(amount, fill_price) > DECIMAL_ZERO
              => UpdateAccepted("USDT", -commission_dec(amount, fill_price)))
    THEN [kind |-> "order", status |-> "closed", percent |-> DECIMAL_HUNDRED,
          average |-> fill_price, market |-> 0,
          fee |-> commission_dec(amount, fill_price) \div QuantumParts]
    ELSE [kind |-> "order", status |-> "rejected", percent |-> 0,
          average |-> 0, market |-> 0, fee |-> 0]

\* DemoExchangeAPI.create_order, the ledger it leaves: the one call of
\* update_virtual_balance, made for a positive commission only.
LedgerAfterOrder(amount, market_price, fill_price) ==
    IF /\ amount > DECIMAL_ZERO
       /\ market_price > DECIMAL_ZERO
       /\ fill_price > DECIMAL_ZERO
       /\ commission_dec(amount, fill_price) > DECIMAL_ZERO
    THEN update_virtual_balance("USDT", -commission_dec(amount, fill_price))
    ELSE virtual_balances

\* execute_trade's order in demo mode: the price estimate and the size are
\* good, so the order reaches the simulator, which reads the market price
\* and fills at a slipped price.
DemoPlaceOpenOrder(entry_price, market_price, fill_price) ==
    /\ PlaceOpenOrder(entry_price, None, None, 100, create_order(100, market_price, fill_price))
    /\ ~StopLossRejected(adjust_precision(StopLossFor(entry_price, et.side, None)), entry_price, et.side)
    /\ virtual_balances' = LedgerAfterOrder(100, market_price, fill_price)

DemoPlaceOpenOrderStep ==
    \E entry_price \in env.quotes, market_price \in env.quotes, fill_price \in env.fills :
        DemoPlaceOpenOrder(entry_price, market_price, fill_price)

\* close_position_by_id in demo mode, from the simulator's answer on.
DemoFinishClose(t, market_price, fill_price) ==
    /\ FinishClose(t, create_order(cl[t].amount, market_price, fill_price))
    /\ CanEnter(balance_lock, t)
    /\ virtual_balances' = LedgerAfterOrder(cl[t].amount, market_price, fill_price)

DemoFinishCloseStep ==
    \E t \in Threads, market_price \in env.quotes, fill_price \in env.fills :
        DemoFinishClose(t, market_price, fill_price)

\* _run_loop, step 4: _send_position_update() when the update interval has
\* passed. Its first test reads self.exchange_api.exchange outside any try;
\* DemoExchangeAPI has no such attribute, so in demo mode the AttributeError
\* reaches the loop's except Exception: _is_running = False, _cleanup(),
\* break. With the real ExchangeAPI the step only emits the snapshot.
send_position_update ==
    /\ pc["loop"] = "idle"
    /\ ~draining
    /\ is_running
    /\ trade_manager
    /\ CanEnter(balance_lock, "loop")
    /\ IF is_demo_mode
       THEN /\ is_running' = FALSE
            /\ trade_manager' = FALSE
            /\ virtual_balances' = EmptyTable
            /\ external_signal_queue' = <<>>
            /\ sentinel_history' = [sentinel_history EXCEPT !.behind = 0]
            /\ pc' = [pc EXCEPT !["loop"] = "exited"]
       ELSE UNCHANGED <<is_running, trade_manager, virtual_balances, external_signal_queue, sentinel_history, pc>>
    /\ UNCHANGED <<open_positions, settings, env, start_returned, notified_opens, processed_count, draining, taken, positions_lock, balance_lock, stale_bot_threads,
                   order_id_counter, cl, et, chk, today, reduce_orders, removals, closed_pnl_today>>
    /\ RiskUnchanged

NextDemo ==
    \/ StartStep
    \/ Stop
    \/ cleanup
    \/ LoopExit
    \/ ManualCloseStep
    \/ OpenSignalStep
    \/ CloseSignalStep
    \/ PollClosed
    \/ ConfirmClosed
    \/ RiskGateStep
    \/ DemoPlaceOpenOrderStep
    \/ CloseBySymbolStep
    \/ CloseByIdStep
    \/ PlaceCloseOrderStep
    \/ DemoFinishCloseStep
    \/ UpdateVirtualBalanceStep
    \/ send_position_update

\* Demo mode with one symbol quoted at 10 or 20: the commission of an order
\* of 100 is one or two quanta. The configured start balance is negative,
\* or one or two quanta.
SpecDemo ==
    /\ InitWith(([max_open_positions : {1},
                  stop_loss_percentage : {10},
                  take_profit_percentage : {0},
                  tsl_enabled : {FALSE},
                  tsl_activation_percentage : {0},
                  tsl_distance_percent : {0},
                  max_daily_loss_percent : {0},
                  max_signals_per_cycle : {10},
                  database_manager : {FALSE}, current_mode : {"demo"}]),
                ([quotes : {{10, 20}}, fills : {{10, 20}}, signal_prices : {{0}},
                  fees : {{0}}, symbols : {{"BTCUSDT"}}, sides : {{"buy"}},
                  close_percents : {{100}},
                  reconciled : {{<<>>, <<Reported("BTCUSDT", "buy", 10)>>}},
                  balances : {{1000}},
                  restart_early : {FALSE}, save_results : {{TRUE}},
                  start_balances : {[USDT |-> b] : b \in {-5, 1, 2}}]))
    /\ [][NextDemo]_vars

\* ------------------------------------------------------------------ claims
\* C1 (as stated): with max_open_positions > 0 the position table never holds
\* more positions than max_open_positions.
C1_TableWithinLimit ==
    settings.max_open_positions > 0 =>
        Cardinality(DOMAIN VisibleTable) <= settings.max_open_positions

\* C2: a position id gets at most one reduce-only order and is popped at most
\* once, and a close call that finds the position not 'open' returns without
\* touching the table or the exchange.
C2_IdempotentClose ==
    [][/\ \A i \in PositionIds : reduce_orders'[i] <= 1 /\ removals'[i] <= 1
       /\ \A t \in Threads :
            (/\ pc[t] = "close_by_id"
             /\ pc'[t] # "close_by_id"
             /\ cl[t].order_id \in DOMAIN open_positions
             /\ open_positions[cl[t].order_id].status # "open")
            => /\ pc'[t] = cl[t].ret
               /\ open_positions' = open_positions
               /\ reduce_orders' = reduce_orders
               /\ removals' = removals]_vars

\* C2 witness: a manual close and a loop close of one position id in flight
\* together, the loop's order already placed.
C2_Witness ==
    /\ pc["loop"] = "close_finish"
    /\ cl["loop"].ret = "chk_close"
    /\ pc["gui"] = "close_by_id"
    /\ cl["gui"].order_id = cl["loop"].order_id

\* C3 (as stated): a close request, by id, for a position with status
\* close_failed places a new closing order.
C3_FailedCloseIsRetried ==
    [][\A t \in Threads :
          (/\ pc[t] = "close_by_id"
           /\ pc'[t] # "close_by_id"
           /\ cl[t].order_id \in DOMAIN open_positions
           /\ open_positions[cl[t].order_id].status = "close_failed")
          => pc'[t] = "close_order"]_vars

\* The step is the end of a close of position i confirmed at >= 99%.
ConfirmedCloseOf(i) ==
    \E t \in Threads, resp \in CloseResponses :
        /\ cl[t].order_id = i
        /\ CloseConfirmed(cl[t].amount, resp)
        /\ FinishClose(t, resp)

\* C6 (as stated): a position leaves the table the engine shows only in the
\* step that ends a close of it confirmed at >= 99%.
C6_RemovedOnlyByConfirmedClose ==
    [][\A i \in DOMAIN VisibleTable :
          i \notin DOMAIN VisibleTable' => ConfirmedCloseOf(i)]_vars

\* C6 (amended): while the engine keeps its TradeManager, a position leaves
\* the table only in the step that ends a close of it confirmed at >= 99%.
C6_RemovedOnlyByConfirmedCloseWhileUp ==
    [][(trade_manager /\ trade_manager') =>
          \A i \in DOMAIN open_positions :
              i \notin DOMAIN open_positions' => ConfirmedCloseOf(i)]_vars

\* C6 witness: a confirmed close has removed a position while the engine is
\* up and another position is still tracked.
C6_Witness ==
    /\ trade_manager
    /\ \E i \in PositionIds : removals[i] = 1 /\ i \notin DOMAIN open_positions
    /\ DOMAIN open_positions # {}

\* C7: a close that ends without a confirmation at >= 99% leaves the position
\* in the table with status close_failed.
C7_FailedCloseKeepsPosition ==
    [][\A t \in Threads :
          (pc[t] = "close_finish" /\ pc'[t] # "close_finish")
          => \/ ConfirmedCloseOf(cl[t].order_id)
             \/ /\ cl[t].order_id \in DOMAIN open_positions'
                /\ open_positions'[cl[t].order_id].status = "close_failed"]_vars

\* C7 witness: a position with status close_failed whose one closing order
\* has been placed and which was never popped.
C7_Witness ==
    \E i \in DOMAIN open_positions :
        /\ open_positions[i].status = "close_failed"
        /\ reduce_orders[i] = 1
        /\ removals[i] = 0

\* C8 (as stated): the open goes on to the risk gate and the order only when
\* the old position was confirmed closed; a poll that ran out aborts it.
C8_TimeoutAbortsOpen ==
    pc["loop"] \in {"et_gate", "et_order"} => et.preclose # "timeout"

\* C8 (amended): the poll is bounded, it ends only when the symbol is absent
\* or the bound is used up, and the open is aborted, with no order placed and
\* nothing tracked, exactly when the close call itself reported failure.
C8_AbortOnlyOnFailedClose ==
    [][/\ et'.waited <= MaxPollIterations
       /\ (/\ pc["loop"] = "et_poll"
           /\ pc'["loop"] # "et_poll"
           /\ ~cl["loop"].result)
          => /\ pc'["loop"] = "idle"
             /\ open_positions' = open_positions
             /\ order_id_counter' = order_id_counter
       /\ (pc["loop"] = "et_poll" /\ pc'["loop"] = "et_confirm")
          => /\ cl["loop"].result
             /\ \/ get_position_by_symbol_thread_safe(et.symbol) = 0
                \/ et.waited = MaxPollIterations]_vars

\* C8 witness: the poll used up its bound with the symbol still in the table
\* and the open went on to place its order.
C8_Witness ==
    /\ pc["loop"] = "et_order"
    /\ et.preclose = "timeout"
    /\ et.waited = MaxPollIterations
    /\ get_position_by_symbol_thread_safe(et.symbol) # 0

\* C9 (as stated): the table never holds two positions of one symbol, at
\* least one of which was opened by a signal.
C9_OnePositionPerSymbol ==
    \A i, j \in DOMAIN VisibleTable :
        (i # j /\ ~(VisibleTable[i].reconciled /\ VisibleTable[j].reconciled))
        => VisibleTable[i].symbol # VisibleTable[j].symbol

\* C4 (as stated): a stored position with both a stop-loss and a take-profit
\* has them on opposite sides of its stored entry price, the stop-loss on the
\* losing side.
C4_StopAndTargetOrdered ==
    \A i \in DOMAIN open_positions :
        LET p == open_positions[i] IN
        (p.sl_price > DECIMAL_ZERO /\ p.tp_price > DECIMAL_ZERO)
        => /\ p.side = "buy" => (p.sl_price < p.entry_price /\ p.entry_price < p.tp_price)
           /\ p.side = "sell" => (p.sl_price > p.entry_price /\ p.entry_price > p.tp_price)

\* C5: once a position's trailing stop is activated it stays activated, and
\* its stop price, once set, never moves away from the price: it does not
\* fall for a long position and does not rise for a short one.
C5_TrailingStopMonotone ==
    [][\A i \in DOMAIN open_positions \cap DOMAIN open_positions' :
          LET p == open_positions[i]
              q == open_positions'[i]
          IN p.tsl_activated
             => /\ q.tsl_activated
                /\ p.tsl_stop_price # None
                   => /\ q.tsl_stop_price # None
                      /\ p.side = "buy" => q.tsl_stop_price >= p.tsl_stop_price
                      /\ p.side = "sell" => q.tsl_stop_price <= p.tsl_stop_price]_vars

\* C5 witness: a long position whose peak has passed the activation price
\* and whose stop trails that peak, above the level it was seeded at.
C5_Witness ==
    \E i \in DOMAIN open_positions :
        LET p == open_positions[i] IN
        /\ p.side = "buy"
        /\ p.tsl_activated
        /\ p.tsl_highest_price = 120
        /\ p.tsl_stop_price = TrailFrom(p, 120)
        /\ p.status = "open"

\* RiskManager.get_current_daily_pnl
\* C10 (as stated): the daily realized PnL the RiskManager reports equals the
\* sum of the net PnL of the closes confirmed since the day began.
C10_DailyPnlIsSumOfCloses == (PnlAfterReset) = closed_pnl_today

\* +1 for a long position, -1 for a short one.
SignOf(side) == IF side = "buy" THEN 1 ELSE -1

\* The step ends a confirmed close by thread t, answered resp, whose PnL is
\* recorded.
RecordedCloseBy(t, resp) ==
    /\ CloseConfirmed(cl[t].amount, resp)
    /\ PnlIsRecorded(cl[t], resp)
    /\ FinishClose(t, resp)

\* C11 (as stated): the net PnL a confirmed close passes to update_daily_pnl is
\* (exit - entry) * amount * sign(side) - fee with the position's tracked
\* amount.
C11_NetPnlOnTrackedAmount ==
    [][\A t \in Threads :
          (pc[t] = "close_finish" /\ pc'[t] # "close_finish")
          => \A resp \in CloseResponses :
          RecordedCloseBy(t, resp)
          => cl'[t].closed_trade_pnl =
                  (ExitPrice(resp) - cl[t].entry_price) * cl[t].amount
                    * SignOf(cl[t].side)
                - resp.fee]_vars

\* C11 (amended): the net PnL a confirmed close passes to update_daily_pnl is
\* (exit - entry) * filled * sign(side) - fee, where filled is the amount the
\* closing order reports filled.
C11_NetPnlOnFilledAmount ==
    [][\A t \in Threads :
          (pc[t] = "close_finish" /\ pc'[t] # "close_finish")
          => \A resp \in CloseResponses :
          RecordedCloseBy(t, resp)
          => cl'[t].closed_trade_pnl =
                  (ExitPrice(resp) - cl[t].entry_price)
                    * ((cl[t].amount * resp.percent) \div DECIMAL_HUNDRED)
                    * SignOf(cl[t].side)
                - resp.fee]_vars

\* C11 witness: the one close so far was filled at 99 of the position's 100
\* units with a price move of 1 in its favour and a fee of 1, and 98 was fed
\* to the RiskManager.
C11_Witness ==
    /\ daily_pnl = 98
    /\ closed_pnl_today = 98
    /\ \E i \in PositionIds :
          /\ removals[i] = 1
          /\ \A j \in PositionIds \ {i} : removals[j] = 0
\* C12: with the daily check enabled, the position limit not reached and the
\* reference balance established, the risk gate refuses the open exactly when
\* daily PnL / reference balance <= -max_daily_loss_percent / 100.
C12_DailyLossGate ==
    [][(/\ pc["loop"] = "et_gate"
        /\ pc'["loop"] # "et_gate"
        /\ settings.max_daily_loss_percent > 0
        /\ ~MaxPositionsReached
        /\ initial_daily_balance' > 0)
       => (pc'["loop"] = "idle"
           <=> daily_pnl' * 100
                 <= -(settings.max_daily_loss_percent * initial_daily_balance'))]_vars

\* C12 witness: with a reference balance of 10000 and a realized loss of 300
\* recorded today, the gate has let an open through to its order.
C12_Witness ==
    /\ pc["loop"] = "et_order"
    /\ initial_daily_balance = 10000
    /\ daily_pnl = -300
    /\ closed_pnl_today = -300
    /\ last_reset_date = today
\* C13 (as stated): with the daily check enabled and no reference balance
\* yet, a risk gate whose balance query fails refuses the open.
C13_FailedQueryFailsClosed ==
    [][(/\ settings.max_daily_loss_percent > 0
        /\ BalanceAfterReset = NoBalance
        /\ RiskGate(QueryFailed))
       => pc'["loop"] = "idle"]_vars
\* C14: a step that moves the RiskManager to a new day leaves a daily PnL of
\* zero, also as the value an update goes on with, and as reference balance
\* either none or, when the step is a risk gate, the balance that gate has
\* queried.
C14_DayRollover ==
    [][last_reset_date' # last_reset_date
       => /\ last_reset_date' = today
          /\ daily_pnl' = DECIMAL_ZERO
          /\ \A t \in Threads :
                (pc[t] # "pnl_store" /\ pc'[t] = "pnl_store")
                => cl'[t].daily_pnl_read = DECIMAL_ZERO
          /\ \/ initial_daily_balance' = NoBalance
             \/ /\ pc["loop"] = "et_gate"
                /\ pc'["loop"] # "et_gate"
                /\ \E answer \in env.balances :
                      initial_daily_balance' = get_balance(answer)]_vars

\* C14 witness: on the day after a close, the RiskManager is on the new day
\* with a daily PnL of zero and a reference balance queried anew, and the
\* gate has let an open through.
C14_Witness ==
    /\ today = 1
    /\ last_reset_date = 1
    /\ daily_pnl = 0
    /\ closed_pnl_today = 0
    /\ initial_daily_balance = 10000
    /\ pc["loop"] = "et_order"
    /\ \E i \in PositionIds : removals[i] = 1
\* Loop threads alive: the one of the last start() and those of earlier ones.
\* C15 (as stated): while the engine runs, at most one loop thread is alive to
\* evaluate positions and drain signals.
C15_OneLoopThread == is_running => (stale_bot_threads + (IF LoopThreadAlive THEN 1 ELSE 0)) <= 1
\* C16 (as stated): teardown never runs while the loop thread has a close in
\* flight: a thread inside close_position_by_id still has its TradeManager.
C16_CloseFinishesBeforeTeardown ==
    pc["loop"] \in {"close_order", "close_finish"} => trade_manager
\* C17 (as stated): no update of the daily PnL is lost: the store that ends
\* an update adds the update's value to the daily PnL as it stands.
C17_NoLostUpdate ==
    [][\A t \in Threads :
          update_daily_pnl(t)
          => daily_pnl' = daily_pnl + cl[t].closed_trade_pnl]_vars

\* C18: no thread holds the position-table lock and the balance lock at the
\* same time, and no thread is inside the RiskManager's daily-PnL update
\* while it holds the position-table lock.
C18_NoNestedLocks ==
    \A t \in Threads :
        positions_lock = t => (balance_lock # t /\ pc[t] # "pnl_store")

\* Both locks are held, by different threads: the manual-close caller is
\* inside a locked section of close_position_by_id while the loop thread is
\* inside the balance lock.
C18_Witness ==
    /\ positions_lock = "gui"
    /\ balance_lock = "loop"
    /\ pc["gui"] = "close_finish"

\* C19 (as stated): in one loop iteration at most max_signals_per_cycle
\* signals, the configured cap, are taken from the queue (processed_count
\* counts them, skipped ones included).
C19_AtMostConfiguredCapTaken ==
    processed_count <= settings.max_signals_per_cycle

\* C19 (amended): in one loop iteration at most max_signals_per_cycle items
\* are taken from the queue, a configured cap of 0 or less counting as 1;
\* skipped items count.
C19_AtMostEffectiveCapTaken == taken <= max_process_per_cycle

\* An iteration stopped taking at the cap with items left in the queue.
C19_Witness ==
    /\ settings.max_signals_per_cycle = 2
    /\ taken = 2
    /\ processed_count = 2
    /\ ~draining
    /\ is_running
    /\ external_signal_queue = <<"skipped">>

\* C20: once None has been dequeued, no item that was queued behind it is
\* taken from the queue, and the loop thread starts nothing more: it is out
\* of _process_external_signals with the bot stopped, or has ended.
C20_SentinelShutdown ==
    [][/\ taken' = taken + 1 => sentinel_history.behind = 0
       /\ sentinel_history'.dequeued =>
             /\ ~is_running'
             /\ ~draining'
             /\ pc'["loop"] \in {"idle", "exited"}]_vars

\* C21: the signal queue is bounded: its own capacity stops the producers,
\* so that the queue stays below the number of items the producers of the
\* model are ready to put, whatever that number is.
C21_QueueBounded == Len(external_signal_queue) < MaxQueue

\* The loop thread takes the evaluation step of check_and_close_positions.
EvaluationStep == pc["loop"] = "idle" /\ pc'["loop"] = "chk_close"

C23_ZeroSizeNoOrder ==
    [][pc["loop"] = "et_order" =>
         \A entry_price \in env.quotes, signal_sl \in env.signal_prices,
            signal_tp \in env.signal_prices, answer \in env.balances :
             (/\ SizeOrder(entry_price, signal_sl, signal_tp, answer)
              /\ settings.max_risk_per_trade_percent > DECIMAL_ZERO
              /\ AmountFromRisk(entry_price,
                     adjust_precision(StopLossFor(entry_price, et.side, signal_sl)),
                     get_balance(answer)) = DECIMAL_ZERO)
             => pc'["loop"] # "et_create"]_vars

\* ------------------------------------------------------------------ C24
\* The risk-derived amount and the policy amount combined as the amount
\* policy says: a fixed base amount replaces the risk-derived amount, a
\* percentage of the balance or a fixed quote value bounds it from above.
PolicyCombined(entry_price, stop_loss_price, balance) ==
    LET from_risk == calculated_size_from_risk_percent(entry_price, stop_loss_price,
                                                       balance)
        policy == size_limit_from_user_settings_base(entry_price, balance)
    IN IF settings.default_amount_type = "fixed" THEN policy
       ELSE IF from_risk < policy THEN from_risk ELSE policy

\* C24: with risk-based sizing on and an amount policy set, the amount of an
\* open order is the fixed base amount under the fixed policy, and the
\* smaller of the risk-derived amount and the policy amount under the
\* percentage and quote-value policies (rounded down to the amount step;
\* in demo mode possibly lowered further by the balance check).
C24_PolicyOverridesOrBounds ==
    [][pc["loop"] = "et_order" =>
         \A entry_price \in env.quotes, signal_sl \in env.signal_prices,
            signal_tp \in env.signal_prices, answer \in env.balances :
             (/\ SizeOrder(entry_price, signal_sl, signal_tp, answer)
              /\ settings.max_risk_per_trade_percent > DECIMAL_ZERO
              /\ settings.default_amount_value > DECIMAL_ZERO
              /\ pc'["loop"] = "et_create")
             => LET expected == adjust_precision_amount(
                        PolicyCombined(entry_price,
                            adjust_precision(StopLossFor(entry_price, et.side, signal_sl)),
                            get_balance(answer)))
                IN /\ et'.final_amount_base <= expected
                   /\ ~is_demo_mode => et'.final_amount_base = expected]_vars

\* ------------------------------------------------------------------ C25
\* C25: in demo mode the value of every open order at the entry estimate is
\* within the quote balance times the leverage, whichever way its amount
\* was computed.
C25_OrderWithinLeveragedBalance ==
    (pc["loop"] = "et_create" /\ is_demo_mode) =>
        et.final_amount_base * et.entry_price
            <= et.current_quote_balance * leverage * StepsPerBase

\* A demo order whose amount the balance check has cut: it is below both the
\* risk-based amount and the policy amount.
C25_Witness ==
    /\ pc["loop"] = "et_create"
    /\ is_demo_mode
    /\ et.final_amount_base > DECIMAL_ZERO
    /\ et.final_amount_base <
           AmountBeforeDemoCheck(et.entry_price, et.final_stop_loss_price,
                                 et.current_quote_balance)

\* ------------------------------------------------------------------ C26
\* (quote balance * risk percent / 100) / |entry - stop|, raw units
RiskBudgetOverDistance(frame) ==
    (frame.current_quote_balance * settings.max_risk_per_trade_percent
        * RawPerHundredth)
    \div (IF frame.entry_price >= frame.final_stop_loss_price
          THEN frame.entry_price - frame.final_stop_loss_price
          ELSE frame.final_stop_loss_price - frame.entry_price)

ScenarioOrderFilled(resp) ==
    /\ CreateOrder(resp)
    /\ et.symbol = "BTCUSDT" /\ et.side = "buy"
    /\ et.entry_price = 50000
    /\ settings.stop_loss_percentage = 2
    /\ settings.max_risk_per_trade_percent = 1
    /\ et.current_quote_balance = 10000
    /\ resp.kind = "order" /\ resp.status = "closed" /\ resp.percent = 100
    /\ resp.average \in {0, 50000}
    /\ open_positions = EmptyTable

\* The table holds exactly one position: BTCUSDT, buy, open, entered at
\* 50000 with its stop-loss at 49000, of the given amount (in steps).
OnePositionOfScenario(table, amount) ==
    /\ Cardinality(DOMAIN table) = 1
    /\ \A i \in DOMAIN table :
          /\ table[i].symbol = "BTCUSDT" /\ table[i].side = "buy"
          /\ table[i].status = "open"
          /\ table[i].entry_price = 50000
          /\ table[i].sl_price = 49000
          /\ table[i].amount = amount

\* C27 as stated: the scenario opens at 50000 with stop-loss 49000 and size
\* 0.2 BTC, and exactly one open position exists afterwards.
C27_ScenarioOpensTwoTenths ==
    [][pc["loop"] = "et_create" =>
         \A resp \in OpenResponses :
             ScenarioOrderFilled(resp)
             => OnePositionOfScenario(open_positions', (2 * StepsPerBase) \div 10)]_vars

\* C27: with no amount policy set the scenario opens at 50000 with stop-loss
\* 49000 and size 0.1 BTC, and exactly one open position exists afterwards.
C27_ScenarioOpensOneTenth ==
    [][pc["loop"] = "et_create" =>
         \A resp \in OpenResponses :
             (ScenarioOrderFilled(resp) /\ settings.default_amount_value = 0)
             => OnePositionOfScenario(open_positions', StepsPerBase \div 10)]_vars

\* The scenario's position is in the table: one position, 0.1 BTC.
C27_Witness ==
    /\ pc["loop"] = "idle"
    /\ settings.stop_loss_percentage = 2
    /\ settings.max_risk_per_trade_percent = 1
    /\ settings.default_amount_value = 0
    /\ OnePositionOfScenario(open_positions, StepsPerBase \div 10)

\* ------------------------------------------------------------------ C28
\* Queue items that are not valid signals: not a dict, data that is not a
\* dict, a missing or invalid action, symbol or side, a source that is not
\* enabled; a source that is not a string.
\* C28: taking a malformed item from the queue never stops the bot: the loop
\* is still running afterwards, so that later signals are processed.
C28_MalformedNeverStops ==
    [][(/\ DrainGoesOn
        /\ Head(external_signal_queue) \in ({"skipped", IllTypedItem})
        /\ external_signal_queue' = Tail(external_signal_queue))
       => is_running']_vars

\* ------------------------------------------------------------------ C29
\* The bot is as it was and the loop thread has not ended.
LoopGoesOn == is_running' = is_running /\ pc'["loop"] # "exited"

\* C29: an exchange error abandons the operation it occurs in and nothing
\* else: a failed price fetch, a failed balance query, an opening order
\* that raises, is not answered or is rejected, and a closing order that
\* raises or is not answered all leave the bot running and the loop thread
\* alive; the failed open tracks nothing and returns, the failed close keeps
\* its position.
C29_ExchangeErrorsStayLocal ==
    [][/\ pc["loop"] = "et_gate" =>
            (RiskGate(QueryFailed) => LoopGoesOn /\ open_positions' = open_positions)
       /\ pc["loop"] = "et_order" =>
            \A signal_sl \in env.signal_prices, signal_tp \in env.signal_prices,
               answer \in env.balances :
                SizeOrder(0, signal_sl, signal_tp, answer)
                => /\ LoopGoesOn
                   /\ pc'["loop"] = "idle"
                   /\ open_positions' = open_positions
       /\ pc["loop"] = "et_create" =>
            \A resp \in OpenResponses :
                (CreateOrder(resp) /\ (resp.kind # "order" \/ resp.status = "rejected"))
                => /\ LoopGoesOn
                   /\ pc'["loop"] = "idle"
                   /\ open_positions' = open_positions
       /\ \A t \in Threads :
            pc[t] = "close_finish" =>
                \A resp \in CloseResponses :
                    (FinishClose(t, resp) /\ resp.kind # "order")
                    => /\ LoopGoesOn
                       /\ DOMAIN open_positions' = DOMAIN open_positions]_vars

\* The bot runs on, its loop between two operations, after a closing order
\* failed.
C29_Witness ==
    /\ is_running
    /\ trade_manager
    /\ pc["loop"] = "idle"
    /\ \E i \in DOMAIN open_positions : open_positions[i].status = "close_failed"

\* ------------------------------------------------------------------ C30
\* C30: a position enters the table only by an opening order answered with
\* a positive filled amount, and the RiskManager is told of an open only
\* then: an order that is rejected, raises, is not answered or reports a
\* zero fill leaves the table and the notifications as they were.
C30_TrackedOnlyWhenFilled ==
    [][/\ \A k \in DOMAIN open_positions' \ DOMAIN open_positions :
            /\ pc["loop"] = "et_create"
            /\ open_positions'[k].amount > DECIMAL_ZERO
            /\ notified_opens' = notified_opens \cup {k}
       /\ notified_opens' # notified_opens
            => DOMAIN open_positions' # DOMAIN open_positions
       /\ pc["loop"] = "et_create" =>
            \A resp \in OpenResponses :
                (/\ CreateOrder(resp)
                 /\ \/ resp.kind # "order"
                    \/ resp.status = "rejected"
                    \/ (et.final_amount_base * resp.percent) \div DECIMAL_HUNDRED
                            = DECIMAL_ZERO)
                => /\ open_positions' = open_positions
                   /\ notified_opens' = notified_opens]_vars

\* A filled opening order left its position in the table and the
\* RiskManager was told of it.
C30_Witness ==
    /\ pc["loop"] = "idle"
    /\ \E k \in DOMAIN open_positions :
            /\ k \in notified_opens
            /\ open_positions[k].status = "open"
            /\ open_positions[k].amount > DECIMAL_ZERO

\* ------------------------------------------------------------------ C31
\* C31: a confirmed close completes in memory whatever becomes of the
\* ClosedTradeRecord: without a database manager, and with a save that
\* fails, the position leaves the table and the call returns True.
C31_CloseCompletesWithoutPersistence ==
    [][\A t \in Threads :
          /\ pc[t] = "close_finish" =>
                \A resp \in CloseResponses :
                    (/\ FinishClose(t, resp)
                     /\ CloseConfirmed(cl[t].amount, resp)
                     /\ StillClosing(cl[t].order_id))
                    => /\ cl[t].order_id \notin DOMAIN open_positions'
                       /\ ~settings.database_manager => CloseReturns(t, TRUE)
                       /\ settings.database_manager =>
                             (pc'[t] = "pnl_store" \/ CloseReturns(t, TRUE))
          /\ (pc[t] = "pnl_store" /\ ~cl[t].saved /\ update_daily_pnl(t))
                => /\ CloseReturns(t, TRUE)
                   /\ open_positions' = open_positions]_vars

\* The save of a closed trade has failed; its position is out of the table
\* and the close, made for an open signal, is about to return.
C31_Witness ==
    \E t \in Threads :
        /\ pc[t] = "pnl_store"
        /\ ~cl[t].saved
        /\ cl[t].ret = "et_poll"
        /\ \E i \in PositionIds : removals[i] > 0 /\ i \notin DOMAIN open_positions

\* C32: when the user's settings lack the risk section, start() returns False
\* to its caller, starts no loop thread and leaves the engine not running,
\* with its components torn down.
C32_MissingRiskSettingsRefuseStart ==
    [][\A user_settings \in SUBSET {"risk", "trading"}, positions_from_api \in env.reconciled :
          ("risk" \notin user_settings /\ start(user_settings, positions_from_api))
          => /\ start_returned' = "False"
             /\ ~is_running'
             /\ ~trade_manager'
             /\ pc'["loop"] = pc["loop"]
             /\ stale_bot_threads' = stale_bot_threads]_vars

\* A start has been refused after an earlier run of the engine: nothing runs.
C32_Witness ==
    /\ start_returned = "False"
    /\ ~is_running
    /\ ~LoopThreadAlive
    /\ pc["loop"] = "exited"

\* C33: in an evaluation cycle a position whose symbol got no price is skipped
\* and left exactly as it was, while every open position whose symbol got a
\* price is evaluated in the same cycle; the skipped position stays open, so
\* the next cycle takes it up again under the same rule.
C33_UnpricedPositionSkippedForTheCycle ==
    [][\A prices \in PriceMaps(SymbolsOf(OpenIds)) :
          CheckPositions(prices) =>
             \A i \in OpenIds :
                LET position == open_positions[i]
                    price == prices[position.symbol]
                IN /\ price = DECIMAL_ZERO =>
                         /\ open_positions'[i] = position
                         /\ i \notin chk'.positions_to_close_now
                         /\ i \in chk'.unpriced
                   /\ (price > DECIMAL_ZERO /\ position.entry_price > DECIMAL_ZERO) =>
                         /\ i \notin chk'.unpriced
                         /\ i \in chk'.positions_to_close_now
                               <=> CloseReason(position, price) \in {"SL", "TP", "TSL"}]_vars

\* A cycle skipped one position for lack of a price and found another to
\* close; the skipped position is still open.
C33_Witness ==
    /\ pc["loop"] = "chk_close"
    /\ \E i \in chk.unpriced, j \in chk.positions_to_close_now :
          /\ i # j
          /\ i \in OpenIds

\* C35: stop with the close-positions option on a running bot submits a
\* close order for every position that is open at that moment.
C35_StopClosesOpenPositions ==
    [][(stop(TRUE) /\ trade_manager)
       => \A i \in OpenIds : reduce_orders'[i] > reduce_orders[i]]_vars

\* C38: an open signal that the risk gate refuses has placed no order and
\* has left the position table as it was: the execute_trade call has not
\* closed a position of the signal's symbol before it reached the gate.
C38_RefusedSignalChangesNothing ==
    [][\A answer \in env.balances :
          (RiskGate(answer) /\ ~can_open_new_position(get_balance(answer)))
          => et.preclose = "none"]_vars

\* C39: every position of the table has status open, closing or
\* close_failed, and a position has status closing only while a thread is
\* inside the close_position_by_id call that marked it.
C39_ClosingOnlyDuringCloseCall ==
    \A i \in DOMAIN open_positions :
        /\ open_positions[i].status \in {"open", "closing", "close_failed"}
        /\ open_positions[i].status = "closing"
              => \E t \in Threads : /\ pc[t] \in {"close_order", "close_finish"}
                                    /\ cl[t].order_id = i

\* One position is being closed, its order placed, while another position
\* rests with a failed close.
C39_Witness ==
    \E i, j \in DOMAIN open_positions :
        /\ open_positions[i].status = "closing"
        /\ open_positions[j].status = "close_failed"
        /\ \E t \in Threads : pc[t] = "close_finish" /\ cl[t].order_id = i

\* C34: in the simulator an order whose commission the virtual quote balance
\* does not cover is answered as rejected with nothing filled, and the ledger
\* is as before; the opening order then tracks nothing and the closing order
\* leaves its position in the table.
C34_UncoveredCommissionRejects ==
    [][/\ \A entry_price, market_price \in env.quotes, fill_price \in env.fills :
             (/\ DemoPlaceOpenOrder(entry_price, market_price, fill_price)
              /\ get_virtual_balance("USDT") * QuantumParts < commission_dec(100, fill_price))
             => /\ create_order(100, market_price, fill_price).status = "rejected"
                /\ create_order(100, market_price, fill_price).percent = 0
                /\ virtual_balances' = virtual_balances
                /\ open_positions' = open_positions
       /\ \A t \in Threads, market_price \in env.quotes, fill_price \in env.fills :
             (/\ DemoFinishClose(t, market_price, fill_price)
              /\ get_virtual_balance("USDT") * QuantumParts < commission_dec(cl[t].amount, fill_price))
             => /\ create_order(cl[t].amount, market_price, fill_price).status = "rejected"
                /\ create_order(cl[t].amount, market_price, fill_price).percent = 0
                /\ virtual_balances' = virtual_balances
                /\ DOMAIN open_positions' = DOMAIN open_positions]_vars

\* A closing order has been rejected for its commission: the position is
\* left close_failed after its one order, and the quote balance is empty.
C34_Witness ==
    /\ is_demo_mode
    /\ get_virtual_balance("USDT") = DECIMAL_ZERO
    /\ \E i \in DOMAIN open_positions :
          /\ open_positions[i].status = "close_failed"
          /\ reduce_orders[i] = 1
          /\ removals[i] = 0

C37_SnapshotKeepsLoopCycling ==
    [][send_position_update
       => /\ is_running'
          /\ trade_manager'
          /\ pc'["loop"] # "exited"]_vars

\* C40: the virtual balance of every currency is never negative, whatever
\* updates the threads make, and an update that would take a balance below
\* zero leaves the ledger as it was.
C40_LedgerNeverNegative ==
    /\ [](\A c \in DOMAIN virtual_balances : virtual_balances[c] >= DECIMAL_ZERO)
    /\ [][\A t \in Threads, currency \in {"USDT", "BTC"}, change \in {-1500, 500, 1500} :
             (/\ UpdateVirtualBalance(t, currency, change)
              /\ get_virtual_balance(currency) * QuantumParts + change < 0)
             => virtual_balances' = virtual_balances]_vars

\* The ledger holds a currency it was not started with, the quote balance
\* has been spent down to nothing, and a debit has been refused on it.
C40_Witness ==
    /\ is_demo_mode
    /\ DOMAIN virtual_balances = {"USDT", "BTC"}
    /\ virtual_balances["USDT"] = DECIMAL_ZERO
    /\ virtual_balances["BTC"] > DECIMAL_ZERO
====
